---- MODULE Spec2Model ----
(***************************************************************************)
(* A model of IBTK's JacobianCalculator family                             *)
(* (ibtk/src/lagrangian/JacobianCalculator.cpp).                           *)
(*                                                                         *)
(* Numbers.  A C++ double is modelled as an exact real, held as the tuple  *)
(* <<n, d, r>> with d > 0 and gcd(|n|, d) = 1: the rational n/d when       *)
(* r = 1, and sign(n) * sqrt(|n|/d) when r = 2 (what std::sqrt returns and *)
(* what its products with rationals are).  Zero is <<0, 1, 1>>.  Every     *)
(* value the kernels compute from rational inputs has one of these forms:  *)
(* sums and products of rationals, one square root, one product with a     *)
(* weight.  Round-off is not modelled.                                     *)
(*                                                                         *)
(* TBOX_ASSERT is modelled as the check it is written as: a false          *)
(* condition ends the call (or the construction) in the fatal error        *)
(* outcome.                                                                *)
(*                                                                         *)
(* Arrays are functions on 0..n-1, as in the source.                       *)
(***************************************************************************)
EXTENDS Integers, Sequences, FiniteSets, TLC

----------------------------------------------------------------------------
(* Exact arithmetic standing for double arithmetic                          *)

Abs(x) == IF x < 0 THEN -x ELSE x

RECURSIVE Gcd(_, _)
Gcd(a, b) == IF b = 0 THEN a ELSE Gcd(b, a % b)

Zero == <<0, 1, 1>>

Norm(n, d, r) ==
    IF n = 0 THEN Zero
    ELSE LET g == Gcd(Abs(n), d) IN <<n \div g, d \div g, r>>

Num(k) == <<k, 1, 1>>

Frac(n, d) == Norm(n, d, 1)

Neg(a) == <<-a[1], a[2], a[3]>>

\* a + b; the two operands of every sum in the source are rational
Add(a, b) ==
    CASE a[1] = 0 -> b
      [] b[1] = 0 -> a
      [] a[1] # 0 /\ b[1] # 0 /\ a[3] = 1 /\ b[3] = 1 ->
            LET g == Gcd(a[2], b[2])
            IN  Norm(a[1] * (b[2] \div g) + b[1] * (a[2] \div g),
                     (a[2] \div g) * b[2], 1)

Sub(a, b) == Add(a, Neg(b))

\* a as a signed square root: n/d = sign(n) * sqrt(n*n / (d*d))
AsRoot(a) == IF a[3] = 2 THEN a ELSE <<a[1] * Abs(a[1]), a[2] * a[2], 2>>

\* x * y for two signed square roots
RootMul(x, y) == Norm(x[1] * y[1], x[2] * y[2], 2)

Mul(a, b) ==
    IF a[3] = 1 /\ b[3] = 1
    THEN Norm(a[1] * b[1], a[2] * b[2], 1)
    ELSE RootMul(AsRoot(a), AsRoot(b))

\* a variant of Sqrt that leaves the square root out
SqrtLeftOut(a) == a

\* std::sqrt of a non-negative rational
Sqrt(a) == IF a[1] = 0 THEN Zero ELSE <<a[1], a[2], 2>>

\* variants of the comparison with zero: a # 0.0 and a >= 0.0
NonZero(a) == a[1] # 0

Ge0(a) == a[1] >= 0

\* a > 0.0
Gt0(a) == a[1] > 0

\* the function f itself, held as the table of its values
Table(f) == f @@ <<>>

\* a function on 0..Len(s)-1 from a tuple
Arr(s) == Table([i \in 0 .. Len(s) - 1 |-> s[i + 1]])

Size(f) == Cardinality(DOMAIN f)

\* sum of f[lo..hi]
RECURSIVE SumTo(_, _, _)
SumTo(f, lo, hi) == IF lo > hi THEN Zero ELSE Add(f[lo], SumTo(f, lo + 1, hi))

----------------------------------------------------------------------------
(* The reference element library, as the calculators consume it            *)

ElemTypes == {"EDGE2", "TRI3", "QUAD4", "QUAD9", "TET4"}

get_dim(elem_type) ==
    CASE elem_type = "EDGE2" -> 1
      [] elem_type \in {"TRI3", "QUAD4", "QUAD9"} -> 2
      [] elem_type = "TET4" -> 3

get_n_nodes(elem_type) ==
    CASE elem_type = "EDGE2" -> 2
      [] elem_type = "TRI3" -> 3
      [] elem_type = "QUAD4" -> 4
      [] elem_type = "QUAD9" -> 9
      [] elem_type = "TET4" -> 4

\* FE<1, LAGRANGE>::shape for EDGE2 (FIRST) and EDGE3 (SECOND)
Edge2Shape(i, xi) ==
    IF i = 0 THEN Mul(Frac(1, 2), Sub(Num(1), xi))
    ELSE Mul(Frac(1, 2), Add(Num(1), xi))

\* a variant of the derivative for a reference element of unit length
Edge2ShapeDerivUnit(i, xi) == IF i = 0 THEN Num(-1) ELSE Num(1)

Edge2ShapeDeriv(i, xi) == IF i = 0 THEN Frac(-1, 2) ELSE Frac(1, 2)

Edge3Shape(i, xi) ==
    CASE i = 0 -> Mul(Frac(1, 2), Mul(xi, Sub(xi, Num(1))))
      [] i = 1 -> Mul(Frac(1, 2), Mul(xi, Add(xi, Num(1))))
      [] i = 2 -> Sub(Num(1), Mul(xi, xi))

Edge3ShapeDeriv(i, xi) ==
    CASE i = 0 -> Sub(xi, Frac(1, 2))
      [] i = 1 -> Add(xi, Frac(1, 2))
      [] i = 2 -> Mul(Num(-2), xi)

\* tensor-product node numbering of QUAD4 and QUAD9
Quad4I0 == Arr(<<0, 1, 1, 0>>)
Quad4I1 == Arr(<<0, 0, 1, 1>>)
Quad9I0 == Arr(<<0, 1, 1, 0, 2, 1, 2, 0, 2>>)
Quad9I1 == Arr(<<0, 0, 1, 1, 0, 2, 1, 2, 2>>)

\* FE<dim, LAGRANGE>::shape_deriv(elem_type, get_default_order(elem_type),
\* node_n, d, p): derivative of shape function node_n along reference axis d
shape_deriv(elem_type, node_n, d, p) ==
    CASE elem_type = "EDGE2" -> Edge2ShapeDeriv(node_n, p[0])
      [] elem_type = "TRI3" ->
            IF node_n = 0 THEN Num(-1)
            ELSE IF node_n = d + 1 THEN Num(1) ELSE Zero
      [] elem_type = "TET4" ->
            IF node_n = 0 THEN Num(-1)
            ELSE IF node_n = d + 1 THEN Num(1) ELSE Zero
      [] elem_type = "QUAD4" ->
            IF d = 0
            THEN Mul(Edge2ShapeDeriv(Quad4I0[node_n], p[0]),
                     Edge2Shape(Quad4I1[node_n], p[1]))
            ELSE Mul(Edge2Shape(Quad4I0[node_n], p[0]),
                     Edge2ShapeDeriv(Quad4I1[node_n], p[1]))
      [] elem_type = "QUAD9" ->
            IF d = 0
            THEN Mul(Edge3ShapeDeriv(Quad9I0[node_n], p[0]),
                     Edge3Shape(Quad9I1[node_n], p[1]))
            ELSE Mul(Edge3Shape(Quad9I0[node_n], p[0]),
                     Edge3ShapeDeriv(Quad9I1[node_n], p[1]))

\* a reference point (libMesh::Point: always three coordinates)
Pt(x, y, z) == Arr(<<x, y, z>>)

\* QBase::build(quad_type, dim, order) followed by init(elem_type): the
\* rule's points and weights.  Rules with rational points stand for the
\* library's tables: one-point Gauss rules, the trapezoidal and Simpson
\* rules, the three-point triangle rule, the four-point triangle and
\* five-point tetrahedron rules with a negative weight, and the 2 x 2
\* grid and 3 x 3 Simpson tensor-product rules, whose x coordinate
\* increases fastest.
QuadRule(quad_type, dim, order, elem_type) ==
    CASE elem_type = "EDGE2" /\ quad_type = "QGAUSS" /\ order = 1 ->
            [points  |-> Arr(<<Pt(Zero, Zero, Zero)>>),
             weights |-> Arr(<<Num(2)>>)]
      [] elem_type = "EDGE2" /\ quad_type = "QTRAP" /\ order = 1 ->
            [points  |-> Arr(<<Pt(Num(-1), Zero, Zero), Pt(Num(1), Zero, Zero)>>),
             weights |-> Arr(<<Num(1), Num(1)>>)]
      [] elem_type = "EDGE2" /\ quad_type = "QSIMPSON" /\ order = 3 ->
            [points  |-> Arr(<<Pt(Num(-1), Zero, Zero), Pt(Zero, Zero, Zero),
                               Pt(Num(1), Zero, Zero)>>),
             weights |-> Arr(<<Frac(1, 3), Frac(4, 3), Frac(1, 3)>>)]
      [] elem_type = "TRI3" /\ quad_type = "QGAUSS" /\ order = 1 ->
            [points  |-> Arr(<<Pt(Frac(1, 3), Frac(1, 3), Zero)>>),
             weights |-> Arr(<<Frac(1, 2)>>)]
      [] elem_type = "TRI3" /\ quad_type = "QGAUSS" /\ order = 2 ->
            [points  |-> Arr(<<Pt(Frac(2, 3), Frac(1, 6), Zero),
                               Pt(Frac(1, 6), Frac(2, 3), Zero),
                               Pt(Frac(1, 6), Frac(1, 6), Zero)>>),
             weights |-> Arr(<<Frac(1, 6), Frac(1, 6), Frac(1, 6)>>)]
      [] elem_type = "TRI3" /\ quad_type = "QGAUSS" /\ order = 3 ->
            [points  |-> Arr(<<Pt(Frac(1, 3), Frac(1, 3), Zero),
                               Pt(Frac(1, 5), Frac(1, 5), Zero),
                               Pt(Frac(3, 5), Frac(1, 5), Zero),
                               Pt(Frac(1, 5), Frac(3, 5), Zero)>>),
             weights |-> Arr(<<Frac(-27, 96), Frac(25, 96), Frac(25, 96),
                               Frac(25, 96)>>)]
      [] elem_type \in {"QUAD4", "QUAD9"} /\ quad_type = "QGAUSS" /\ order = 1 ->
            [points  |-> Arr(<<Pt(Zero, Zero, Zero)>>),
             weights |-> Arr(<<Num(4)>>)]
      [] elem_type \in {"QUAD4", "QUAD9"} /\ quad_type = "QTRAP" /\ order = 1 ->
            [points  |-> Arr(<<Pt(Num(-1), Num(-1), Zero), Pt(Num(1), Num(-1), Zero),
                               Pt(Num(1), Num(1), Zero), Pt(Num(-1), Num(1), Zero)>>),
             weights |-> Arr(<<Num(1), Num(1), Num(1), Num(1)>>)]
      [] elem_type \in {"QUAD4", "QUAD9"} /\ quad_type = "QGRID" /\ order = 2 ->
            [points  |-> Arr(<<Pt(Frac(-1, 2), Frac(-1, 2), Zero),
                               Pt(Frac(1, 2), Frac(-1, 2), Zero),
                               Pt(Frac(-1, 2), Frac(1, 2), Zero),
                               Pt(Frac(1, 2), Frac(1, 2), Zero)>>),
             weights |-> Arr(<<Num(1), Num(1), Num(1), Num(1)>>)]
      [] elem_type \in {"QUAD4", "QUAD9"} /\ quad_type = "QSIMPSON" /\ order = 3 ->
            [points  |-> Arr(<<Pt(Num(-1), Num(-1), Zero), Pt(Zero, Num(-1), Zero),
                               Pt(Num(1), Num(-1), Zero),
                               Pt(Num(-1), Zero, Zero), Pt(Zero, Zero, Zero),
                               Pt(Num(1), Zero, Zero),
                               Pt(Num(-1), Num(1), Zero), Pt(Zero, Num(1), Zero),
                               Pt(Num(1), Num(1), Zero)>>),
             weights |-> Arr(<<Frac(1, 9), Frac(4, 9), Frac(1, 9),
                               Frac(4, 9), Frac(16, 9), Frac(4, 9),
                               Frac(1, 9), Frac(4, 9), Frac(1, 9)>>)]
      [] elem_type = "TET4" /\ quad_type = "QGAUSS" /\ order = 1 ->
            [points  |-> Arr(<<Pt(Frac(1, 4), Frac(1, 4), Frac(1, 4))>>),
             weights |-> Arr(<<Frac(1, 6)>>)]
      [] elem_type = "TET4" /\ quad_type = "QGAUSS" /\ order = 3 ->
            [points  |-> Arr(<<Pt(Frac(1, 4), Frac(1, 4), Frac(1, 4)),
                               Pt(Frac(1, 2), Frac(1, 6), Frac(1, 6)),
                               Pt(Frac(1, 6), Frac(1, 2), Frac(1, 6)),
                               Pt(Frac(1, 6), Frac(1, 6), Frac(1, 2)),
                               Pt(Frac(1, 6), Frac(1, 6), Frac(1, 6))>>),
             weights |-> Arr(<<Frac(-2, 15), Frac(3, 40), Frac(3, 40),
                               Frac(3, 40), Frac(3, 40)>>)]

\* the keys (elem_type, quad_type, order) the model builds calculators for
QuadKeys ==
    { <<"EDGE2", "QGAUSS", 1>>, <<"EDGE2", "QTRAP", 1>>, <<"EDGE2", "QSIMPSON", 3>>,
      <<"TRI3", "QGAUSS", 1>>, <<"TRI3", "QGAUSS", 2>>, <<"TRI3", "QGAUSS", 3>>,
      <<"QUAD4", "QGAUSS", 1>>, <<"QUAD4", "QTRAP", 1>>, <<"QUAD4", "QGRID", 2>>,
      <<"QUAD4", "QSIMPSON", 3>>,
      <<"QUAD9", "QGAUSS", 1>>, <<"QUAD9", "QTRAP", 1>>, <<"QUAD9", "QGRID", 2>>,
      <<"QUAD9", "QSIMPSON", 3>>,
      <<"TET4", "QGAUSS", 1>>, <<"TET4", "QGAUSS", 3>> }

----------------------------------------------------------------------------
(* Construction                                                             *)

\* libMesh::Elem::max_n_nodes
max_n_nodes == 27

\* the members JacobianCalculator::JacobianCalculator initialises from the
\* rule built for the key: d_JxW resized to the number of weights
\* (value-initialised)
BaseMembers(quad_key, quad_rule) ==
    [d_quad_key     |-> quad_key,
     d_quad_points  |-> quad_rule.points,
     d_quad_weights |-> quad_rule.weights,
     d_JxW          |-> Table([q \in 0 .. Size(quad_rule.weights) - 1 |-> Zero])]

\* JacobianCalculator::JacobianCalculator
JacobianCalculator(quad_key) ==
    BaseMembers(quad_key,
                QuadRule(quad_key[2], get_dim(quad_key[1]), quad_key[3], quad_key[1]))

\* a variant of the constructor's body that asserts room for the nodes
\* of first-order elements only
LagrangeMembersEightNodes(dim, spacedim, base, d_n_nodes) ==
    IF ~(d_n_nodes <= 8)
    THEN [ok |-> FALSE, obj |-> base]
    ELSE [ok  |-> TRUE,
          obj |-> base @@
              [kind      |-> "Lagrange",
               dim       |-> dim,
               spacedim  |-> spacedim,
               d_n_nodes |-> d_n_nodes,
               d_dphi    |->
                   Table([node_n \in 0 .. d_n_nodes - 1 |->
                       Table([q \in 0 .. Size(base.d_quad_points) - 1 |->
                           Table([d \in 0 .. dim - 1 |->
                               shape_deriv(base.d_quad_key[1], node_n, d,
                                           base.d_quad_points[q])])])])]]

\* the body of LagrangeJacobianCalculator's constructor, run on the
\* constructed base: [ok, obj], ok false when the assertion failed
LagrangeMembers(dim, spacedim, base, d_n_nodes) ==
    IF ~(d_n_nodes <= max_n_nodes)
    THEN [ok |-> FALSE, obj |-> base]
    ELSE [ok  |-> TRUE,
          obj |-> base @@
              [kind      |-> "Lagrange",
               dim       |-> dim,
               spacedim  |-> spacedim,
               d_n_nodes |-> d_n_nodes,
               d_dphi    |->
                   Table([node_n \in 0 .. d_n_nodes - 1 |->
                       Table([q \in 0 .. Size(base.d_quad_points) - 1 |->
                           Table([d \in 0 .. dim - 1 |->
                               shape_deriv(base.d_quad_key[1], node_n, d,
                                           base.d_quad_points[q])])])])]]

\* LagrangeJacobianCalculator<dim, spacedim>::LagrangeJacobianCalculator
LagrangeJacobianCalculator(dim, spacedim, quad_key) ==
    LagrangeMembers(dim, spacedim, JacobianCalculator(quad_key),
                    get_n_nodes(quad_key[1]))

\* the specialised kernels that add no construction of their own
\* (Tri3, Quad4, Tet4JacobianCalculator)
SpecialisedJacobianCalculator(kind, quad_key) ==
    [ok  |-> TRUE,
     obj |-> JacobianCalculator(quad_key) @@ [kind |-> kind]]

\* std::round(std::sqrt(n)) for a count n
RoundSqrt(n) ==
    IF n = 0 THEN 0
    ELSE CHOOSE k \in 1 .. n : k * k - k < n /\ n <= k * k + k

\* a variant of the ordering table that keeps libMesh's node order
libmesh_ordering == Arr(<<0, 1, 2>>)

ibamr_to_libmesh_ordering == Arr(<<0, 2, 1>>)

\* the one-dimensional points read off the first row of the rule
OnedPoints(base, n) == Table([q \in 0 .. n - 1 |-> Pt(base.d_quad_points[q][0], Zero, Zero)])

\* a variant of the check that compares the first row of the rule only
IsTensorFirstRow(base, n, oned_points) ==
    \A i \in 0 .. n - 1 :
        base.d_quad_points[i] = Pt(oned_points[i][0], oned_points[0][0], Zero)

\* the check that the rule is the tensor product of oned_points
IsTensor(base, n, oned_points) ==
    \A j \in 0 .. n - 1 :
        \A i \in 0 .. n - 1 :
            base.d_quad_points[j * n + i]
                = Pt(oned_points[i][0], oned_points[j][0], Zero)

\* a variant of the constructor's body without its two assertions
Quad9MembersUnchecked(base, n, oned_points) ==
    [ok  |-> TRUE,
     obj |-> base @@
         [kind              |-> "Quad9",
          d_n_oned_q_points |-> n,
          d_phi             |->
              Table([i \in 0 .. 2 |->
                  Table([q \in 0 .. n - 1 |->
                      Edge3Shape(ibamr_to_libmesh_ordering[i],
                                 oned_points[q][0])])]),
          d_dphi            |->
              Table([i \in 0 .. 2 |->
                  Table([q \in 0 .. n - 1 |->
                      Edge3ShapeDeriv(ibamr_to_libmesh_ordering[i],
                                      oned_points[q][0])])])]]

\* the body of Quad9JacobianCalculator's constructor, run on the
\* constructed base with d_n_oned_q_points = n: [ok, obj]
Quad9Members(base, n, oned_points) ==
    IF n * n # Size(base.d_quad_points)
    THEN [ok |-> FALSE, obj |-> base]
    ELSE IF ~IsTensor(base, n, oned_points)
    THEN [ok |-> FALSE, obj |-> base]
    ELSE [ok  |-> TRUE,
          obj |-> base @@
              [kind              |-> "Quad9",
               d_n_oned_q_points |-> n,
               d_phi             |->
                   Table([i \in 0 .. 2 |->
                       Table([q \in 0 .. n - 1 |->
                           Edge3Shape(ibamr_to_libmesh_ordering[i],
                                      oned_points[q][0])])]),
               d_dphi            |->
                   Table([i \in 0 .. 2 |->
                       Table([q \in 0 .. n - 1 |->
                           Edge3ShapeDeriv(ibamr_to_libmesh_ordering[i],
                                           oned_points[q][0])])])]]

\* the constructor's body once d_n_oned_q_points is known
Quad9Rounded(base, n) == Quad9Members(base, n, OnedPoints(base, n))

\* Quad9JacobianCalculator::Quad9JacobianCalculator
Quad9Constructed(base) == Quad9Rounded(base, RoundSqrt(Size(base.d_quad_points)))

Quad9JacobianCalculator(quad_key) == Quad9Constructed(JacobianCalculator(quad_key))

----------------------------------------------------------------------------
(* get_JxW                                                                  *)

\* elem->type() and elem->point(i): an element is [type, nodes], a node is
\* a libMesh::Point of three coordinates
\* a variant of type() under which a QUAD4 element reports TRI3
TypeQuadAsTri(elem) == IF elem.type = "QUAD4" THEN "TRI3" ELSE elem.type

type(elem) == elem.type

point(elem, i) == elem.nodes[i]

\* a variant of the copy that writes only the entries of dst that are zero
CopyIntoZeros(src, dst) ==
    Table([q \in DOMAIN dst |-> IF dst[q] = Zero /\ q \in DOMAIN src THEN src[q] ELSE dst[q]])

\* std::copy(src.begin(), src.end(), dst.begin())
std_copy(src, dst) ==
    Table([q \in DOMAIN dst |-> IF q \in DOMAIN src THEN src[q] ELSE dst[q]])

\* a variant of Outcome for a call that scales d_quad_weights in place
OutcomeInPlace(how, c, JxW) ==
    [outcome |-> how, obj |-> [c EXCEPT !.d_JxW = JxW, !.d_quad_weights = JxW]]

\* how a call on calculator c ended, and the calculator as the call left
\* it: the call wrote JxW to d_JxW and nothing else
Outcome(how, c, JxW) == [outcome |-> how, obj |-> [c EXCEPT !.d_JxW = JxW]]

\* determinant(const double (&)[M][N]): the 1x1, 2x2 and 3x3
\* specialisations; the primary template always fails
determinant(A, M, N) ==
    CASE M = 1 /\ N = 1 -> [ok |-> TRUE, value |-> A[0][0]]
      [] M = 2 /\ N = 2 ->
            [ok    |-> TRUE,
             value |-> Sub(Mul(A[0][0], A[1][1]), Mul(A[0][1], A[1][0]))]
      [] M = 3 /\ N = 3 ->
            [ok    |-> TRUE,
             value |->
                Add(Sub(Mul(A[0][0], Sub(Mul(A[1][1], A[2][2]), Mul(A[1][2], A[2][1]))),
                        Mul(A[1][0], Sub(Mul(A[0][1], A[2][2]), Mul(A[0][2], A[2][1])))),
                    Mul(A[2][0], Sub(Mul(A[0][1], A[1][2]), Mul(A[0][2], A[1][1]))))]
      [] OTHER -> [ok |-> FALSE, value |-> Zero]

\* a variant of the accumulation that reads d_dphi at quadrature point 0
ContravariantAtFirst(c, xs, q) ==
    Table([i \in 0 .. c.spacedim - 1 |->
        Table([j \in 0 .. c.dim - 1 |->
            SumTo([node_n \in 0 .. c.d_n_nodes - 1 |->
                       Mul(xs[node_n][i], c.d_dphi[node_n][0][j])],
                  0, c.d_n_nodes - 1)])])

\* the accumulation contravariant[i][j] += xs[node_n][i] * d_dphi[node_n][q][j]
Contravariant(c, xs, q) ==
    Table([i \in 0 .. c.spacedim - 1 |->
        Table([j \in 0 .. c.dim - 1 |->
            SumTo([node_n \in 0 .. c.d_n_nodes - 1 |->
                       Mul(xs[node_n][i], c.d_dphi[node_n][q][j])],
                  0, c.d_n_nodes - 1)])])

\* the metric Jac[i][j] = sum_k dx_t[i][k] * dx_t[j][k] of the manifold case
Metric(c, contravariant) ==
    LET dx_t == [j \in 0 .. c.dim - 1 |->
                    [i \in 0 .. c.spacedim - 1 |-> contravariant[i][j]]]
    IN  Table([i \in 0 .. c.dim - 1 |->
            Table([j \in 0 .. c.dim - 1 |->
                SumTo([k \in 0 .. c.spacedim - 1 |-> Mul(dx_t[i][k], dx_t[j][k])],
                      0, c.spacedim - 1)])])

\* a variant of the loop body without the manifold branch: the determinant
\* is taken of the spacedim x dim matrix whatever its shape
LagrangeJNoMetric(c, xs, q) ==
    determinant(Contravariant(c, xs, q), c.spacedim, c.dim)

\* the body of the loop over q in LagrangeJacobianCalculator::get_JxW up
\* to the value of J: [ok, value], ok false when a determinant call failed
LagrangeJ(c, xs, q) ==
    LET contravariant == Contravariant(c, xs, q)
    IN  IF c.dim = c.spacedim
        THEN determinant(contravariant, c.spacedim, c.dim)
        ELSE LET det == determinant(Metric(c, contravariant), c.dim, c.dim)
             IN  [ok |-> det.ok, value |-> Sqrt(det.value)]

RECURSIVE LagrangeLoop(_, _, _, _)
LagrangeLoop(c, xs, JxW, q) ==
    IF q >= Size(JxW) THEN Outcome("returned", c, JxW)
    ELSE LET J == LagrangeJ(c, xs, q)
         IN  IF ~J.ok THEN Outcome("determinant_error", c, JxW)
             ELSE IF ~Gt0(J.value) THEN Outcome("J_error", c, JxW)
             ELSE LagrangeLoop(c, xs, [JxW EXCEPT ![q] = Mul(@, J.value)], q + 1)

\* xs[i][j] = elem->point(i)(j) for the d_n_nodes nodes
NodeCoords(c, elem) ==
    Table([i \in 0 .. c.d_n_nodes - 1 |->
        Table([j \in 0 .. c.spacedim - 1 |-> point(elem, i)[j]])])

\* LagrangeJacobianCalculator<dim, spacedim>::get_JxW
Lagrange_get_JxW(c, elem) ==
    IF type(elem) # c.d_quad_key[1] THEN Outcome("type_error", c, c.d_JxW)
    ELSE LagrangeLoop(c, NodeCoords(c, elem),
                      std_copy(c.d_quad_weights, c.d_JxW), 0)

\* a variant of Tri3J without the off-diagonal product
Tri3JDiagonal(elem) ==
    Mul(Sub(point(elem, 1)[0], point(elem, 0)[0]),
        Sub(point(elem, 2)[1], point(elem, 0)[1]))

\* the value of J in Tri3JacobianCalculator::get_JxW
Tri3J(elem) ==
    LET p0     == point(elem, 0)
        p1     == point(elem, 1)
        p2     == point(elem, 2)
        Jac_00 == Sub(p1[0], p0[0])
        Jac_01 == Sub(p2[0], p0[0])
        Jac_10 == Sub(p1[1], p0[1])
        Jac_11 == Sub(p2[1], p0[1])
    IN  Sub(Mul(Jac_00, Jac_11), Mul(Jac_01, Jac_10))

\* a variant of the loop that leaves the first entry unscaled
ScaleAllFromSecond(c, JxW, J) ==
    IF ~Gt0(J) THEN Outcome("J_error", c, JxW)
    ELSE Outcome("returned", c,
                 Table([q \in DOMAIN JxW |-> IF q = 0 THEN JxW[q] ELSE Mul(JxW[q], J)]))

\* TBOX_ASSERT(J > 0.0); for (double& jxw : d_JxW) jxw *= J;
ScaleAll(c, JxW, J) ==
    IF ~Gt0(J) THEN Outcome("J_error", c, JxW)
    ELSE Outcome("returned", c, Table([q \in DOMAIN JxW |-> Mul(JxW[q], J)]))

\* a variant of Tri3JacobianCalculator::get_JxW that copies the weights
\* before it checks the type
Tri3_get_JxWCopyFirst(c, elem) ==
    IF type(elem) # c.d_quad_key[1]
    THEN Outcome("type_error", c, std_copy(c.d_quad_weights, c.d_JxW))
    ELSE ScaleAll(c, std_copy(c.d_quad_weights, c.d_JxW), Tri3J(elem))

\* Tri3JacobianCalculator::get_JxW
Tri3_get_JxW(c, elem) ==
    IF type(elem) # c.d_quad_key[1] THEN Outcome("type_error", c, c.d_JxW)
    ELSE ScaleAll(c, std_copy(c.d_quad_weights, c.d_JxW), Tri3J(elem))

\* the constants a_1, b_1, c_1, a_2, b_2, c_2 of
\* Quad4JacobianCalculator::get_JxW
Quad4Constants(elem) ==
    LET p0    == point(elem, 0)
        p1    == point(elem, 1)
        p2    == point(elem, 2)
        p3    == point(elem, 3)
        quart == Frac(1, 4)
    IN  [a_1 |-> Mul(quart, Sub(Add(Add(Neg(p0[0]), p1[0]), p2[0]), p3[0])),
         b_1 |-> Mul(quart, Add(Add(Sub(Neg(p0[0]), p1[0]), p2[0]), p3[0])),
         c_1 |-> Mul(quart, Sub(Add(Sub(p0[0], p1[0]), p2[0]), p3[0])),
         a_2 |-> Mul(quart, Sub(Add(Add(Neg(p0[1]), p1[1]), p2[1]), p3[1])),
         b_2 |-> Mul(quart, Add(Add(Sub(Neg(p0[1]), p1[1]), p2[1]), p3[1])),
         c_2 |-> Mul(quart, Sub(Add(Sub(p0[1], p1[1]), p2[1]), p3[1]))]

\* a variant of Quad4J with the coordinates of the quadrature point
\* exchanged
Quad4JExchanged(c, k, i) ==
    LET x      == c.d_quad_points[i][0]
        y      == c.d_quad_points[i][1]
        Jac_00 == Add(k.a_1, Mul(k.c_1, x))
        Jac_01 == Add(k.b_1, Mul(k.c_1, y))
        Jac_10 == Add(k.a_2, Mul(k.c_2, x))
        Jac_11 == Add(k.b_2, Mul(k.c_2, y))
    IN  Sub(Mul(Jac_00, Jac_11), Mul(Jac_01, Jac_10))

\* the value of J at quadrature point i in Quad4JacobianCalculator::get_JxW
Quad4J(c, k, i) ==
    LET x      == c.d_quad_points[i][0]
        y      == c.d_quad_points[i][1]
        Jac_00 == Add(k.a_1, Mul(k.c_1, y))
        Jac_01 == Add(k.b_1, Mul(k.c_1, x))
        Jac_10 == Add(k.a_2, Mul(k.c_2, y))
        Jac_11 == Add(k.b_2, Mul(k.c_2, x))
    IN  Sub(Mul(Jac_00, Jac_11), Mul(Jac_01, Jac_10))

RECURSIVE Quad4Loop(_, _, _, _)
Quad4Loop(c, k, JxW, i) ==
    IF i >= Size(JxW) THEN Outcome("returned", c, JxW)
    ELSE LET J == Quad4J(c, k, i)
         IN  IF ~Gt0(J) THEN Outcome("J_error", c, JxW)
             ELSE Quad4Loop(c, k, [JxW EXCEPT ![i] = Mul(@, J)], i + 1)

\* Quad4JacobianCalculator::get_JxW
Quad4_get_JxW(c, elem) ==
    IF type(elem) # c.d_quad_key[1] THEN Outcome("type_error", c, c.d_JxW)
    ELSE Quad4Loop(c, Quad4Constants(elem),
                   std_copy(c.d_quad_weights, c.d_JxW), 0)

\* a variant of the grid that takes the nodes in their numbering order
Quad9PointsInNodeOrder(elem) ==
    Arr(<< Arr(<<point(elem, 0), point(elem, 1), point(elem, 2)>>),
           Arr(<<point(elem, 3), point(elem, 4), point(elem, 5)>>),
           Arr(<<point(elem, 6), point(elem, 7), point(elem, 8)>>) >>)

\* points[i][j]: the nine nodes on the logical grid, i the y index
Quad9Points(elem) ==
    Arr(<< Arr(<<point(elem, 0), point(elem, 4), point(elem, 1)>>),
           Arr(<<point(elem, 7), point(elem, 8), point(elem, 5)>>),
           Arr(<<point(elem, 3), point(elem, 6), point(elem, 2)>>) >>)

\* the sum over i, j in 0 .. 2 of term[3 * i + j]
Sum33(term) == SumTo(term, 0, 8)

\* xs[i][j] and ys[i][j] of Quad9JacobianCalculator::get_JxW
Quad9Coords(elem) ==
    LET points == Quad9Points(elem)
    IN  [xs |-> Table([i \in 0 .. 2 |-> Table([j \in 0 .. 2 |-> points[i][j][0]])]),
         ys |-> Table([i \in 0 .. 2 |-> Table([j \in 0 .. 2 |-> points[i][j][1]])])]

\* a variant of Quad9J with the quotient and the remainder of q exchanged
Quad9JExchanged(c, g, q) ==
    LET q_point_x == q \div c.d_n_oned_q_points
        q_point_y == q % c.d_n_oned_q_points
        Jac_00    ==
            Sum33([k \in 0 .. 8 |->
                Mul(g.xs[k \div 3][k % 3],
                    Mul(c.d_dphi[k % 3][q_point_x], c.d_phi[k \div 3][q_point_y]))])
        Jac_01    ==
            Sum33([k \in 0 .. 8 |->
                Mul(g.xs[k \div 3][k % 3],
                    Mul(c.d_phi[k % 3][q_point_x], c.d_dphi[k \div 3][q_point_y]))])
        Jac_10    ==
            Sum33([k \in 0 .. 8 |->
                Mul(g.ys[k \div 3][k % 3],
                    Mul(c.d_dphi[k % 3][q_point_x], c.d_phi[k \div 3][q_point_y]))])
        Jac_11    ==
            Sum33([k \in 0 .. 8 |->
                Mul(g.ys[k \div 3][k % 3],
                    Mul(c.d_phi[k % 3][q_point_x], c.d_dphi[k \div 3][q_point_y]))])
    IN  Sub(Mul(Jac_00, Jac_11), Mul(Jac_01, Jac_10))

\* the value of J at quadrature point q in Quad9JacobianCalculator::get_JxW;
\* k = 3 * i + j runs over the pairs i, j of the accumulation
Quad9J(c, g, q) ==
    LET q_point_x == q % c.d_n_oned_q_points
        q_point_y == q \div c.d_n_oned_q_points
        Jac_00    ==
            Sum33([k \in 0 .. 8 |->
                Mul(g.xs[k \div 3][k % 3],
                    Mul(c.d_dphi[k % 3][q_point_x], c.d_phi[k \div 3][q_point_y]))])
        Jac_01    ==
            Sum33([k \in 0 .. 8 |->
                Mul(g.xs[k \div 3][k % 3],
                    Mul(c.d_phi[k % 3][q_point_x], c.d_dphi[k \div 3][q_point_y]))])
        Jac_10    ==
            Sum33([k \in 0 .. 8 |->
                Mul(g.ys[k \div 3][k % 3],
                    Mul(c.d_dphi[k % 3][q_point_x], c.d_phi[k \div 3][q_point_y]))])
        Jac_11    ==
            Sum33([k \in 0 .. 8 |->
                Mul(g.ys[k \div 3][k % 3],
                    Mul(c.d_phi[k % 3][q_point_x], c.d_dphi[k \div 3][q_point_y]))])
    IN  Sub(Mul(Jac_00, Jac_11), Mul(Jac_01, Jac_10))

RECURSIVE Quad9Loop(_, _, _, _)
Quad9Loop(c, g, JxW, q) ==
    IF q >= Size(JxW) THEN Outcome("returned", c, JxW)
    ELSE LET J == Quad9J(c, g, q)
         IN  IF ~Gt0(J) THEN Outcome("J_error", c, JxW)
             ELSE Quad9Loop(c, g, [JxW EXCEPT ![q] = Mul(@, J)], q + 1)

\* Quad9JacobianCalculator::get_JxW
Quad9_get_JxW(c, elem) ==
    IF type(elem) # c.d_quad_key[1] THEN Outcome("type_error", c, c.d_JxW)
    ELSE Quad9Loop(c, Quad9Coords(elem),
                   std_copy(c.d_quad_weights, c.d_JxW), 0)

\* a variant of Tet4J that keeps the product of the diagonal only
Tet4JDiagonal(elem) ==
    Mul(Sub(point(elem, 1)[0], point(elem, 0)[0]),
        Mul(Sub(point(elem, 2)[1], point(elem, 0)[1]),
            Sub(point(elem, 3)[2], point(elem, 0)[2])))

\* the value of J in Tet4JacobianCalculator::get_JxW
Tet4J(elem) ==
    LET p0     == point(elem, 0)
        p1     == point(elem, 1)
        p2     == point(elem, 2)
        p3     == point(elem, 3)
        Jac_00 == Sub(p1[0], p0[0])
        Jac_01 == Sub(p2[0], p0[0])
        Jac_02 == Sub(p3[0], p0[0])
        Jac_10 == Sub(p1[1], p0[1])
        Jac_11 == Sub(p2[1], p0[1])
        Jac_12 == Sub(p3[1], p0[1])
        Jac_20 == Sub(p1[2], p0[2])
        Jac_21 == Sub(p2[2], p0[2])
        Jac_22 == Sub(p3[2], p0[2])
    IN  Add(Sub(Mul(Jac_00, Sub(Mul(Jac_11, Jac_22), Mul(Jac_12, Jac_21))),
                Mul(Jac_10, Sub(Mul(Jac_01, Jac_22), Mul(Jac_02, Jac_21)))),
            Mul(Jac_20, Sub(Mul(Jac_01, Jac_12), Mul(Jac_02, Jac_11))))

\* Tet4JacobianCalculator::get_JxW
Tet4_get_JxW(c, elem) ==
    IF type(elem) # c.d_quad_key[1] THEN Outcome("type_error", c, c.d_JxW)
    ELSE ScaleAll(c, std_copy(c.d_quad_weights, c.d_JxW), Tet4J(elem))

\* the virtual call c.get_JxW(elem), dispatched on the calculator's class
get_JxW(c, elem) ==
    CASE c.kind = "Lagrange" -> Lagrange_get_JxW(c, elem)
      [] c.kind = "Tri3" -> Tri3_get_JxW(c, elem)
      [] c.kind = "Quad4" -> Quad4_get_JxW(c, elem)
      [] c.kind = "Quad9" -> Quad9_get_JxW(c, elem)
      [] c.kind = "Tet4" -> Tet4_get_JxW(c, elem)

----------------------------------------------------------------------------
(* Elements handed to get_JxW                                               *)

\* the largest displacement of a node from its place in the base shape
MaxOffset == 1

Offsets == 0 .. MaxOffset

P3(x, y, z) == Pt(Num(x), Num(y), Num(z))

Elem(elem_type, nodes) == [type |-> elem_type, nodes |-> Arr(nodes)]

\* An element family per type: a base shape in general position with two
\* of its nodes displaced (the first by offsets in A, the second by offsets
\* in B), a node lifted out of the plane by a height in Z, and each shape
\* also mirrored (two nodes swapped).  The families hold valid, non-affine,
\* degenerate and mirrored elements.
Edge2Shapes(A, B, Z) ==
    { Elem("EDGE2", IF t[6] THEN <<P3(3 + t[3], 2 + t[4], 1 + t[5]),
                                   P3(2 + t[1], 1 + t[2], 1)>>
                    ELSE <<P3(2 + t[1], 1 + t[2], 1),
                           P3(3 + t[3], 2 + t[4], 1 + t[5])>>) :
        t \in A \X A \X B \X B \X Z \X BOOLEAN }

Tri3Shapes(A, B, Z) ==
    { Elem("TRI3", IF t[6] THEN <<P3(1 + t[1], 1 + t[2], 0), P3(2, 2, t[5]),
                                  P3(3 + t[3], 2 + t[4], 0)>>
                   ELSE <<P3(1 + t[1], 1 + t[2], 0), P3(3 + t[3], 2 + t[4], 0),
                          P3(2, 2, t[5])>>) :
        t \in A \X A \X B \X B \X Z \X BOOLEAN }

Quad4Shapes(A, B, Z) ==
    { Elem("QUAD4", IF t[6] THEN <<P3(1 + t[1], 1 + t[2], 0), P3(1, 2, 0),
                                   P3(2 + t[3], 3 + t[4], t[5]), P3(3, 2, 0)>>
                    ELSE <<P3(1 + t[1], 1 + t[2], 0), P3(3, 2, 0),
                           P3(2 + t[3], 3 + t[4], t[5]), P3(1, 2, 0)>>) :
        t \in A \X A \X B \X B \X Z \X BOOLEAN }

Tet4Shapes(A, B, Z) ==
    { Elem("TET4", IF t[6] THEN <<P3(1 + t[1], 1 + t[2], 1), P3(3, 1, 2),
                                  P3(1 + t[3], 2 + t[4], 3 + t[5]), P3(2, 3, 1)>>
                   ELSE <<P3(1 + t[1], 1 + t[2], 1), P3(3, 1, 2), P3(2, 3, 1),
                          P3(1 + t[3], 2 + t[4], 3 + t[5])>>) :
        t \in A \X A \X B \X B \X Z \X BOOLEAN }

Half(a, b) == Mul(Frac(1, 2), Add(a, b))

Mid(p, q) == Table([j \in 0 .. 2 |-> Half(p[j], q[j])])

\* a QUAD9 element on four corners: mid-side nodes at the midpoints of the
\* sides, the centre node at the average of the corners displaced by bump
Quad9On(a, b, c, d, bump) ==
    Elem("QUAD9",
         <<a, b, c, d, Mid(a, b), Mid(b, c), Mid(c, d), Mid(d, a),
           Table([j \in 0 .. 2 |->
                     Add(Half(Half(a[j], b[j]), Half(c[j], d[j])), bump[j])])>>)

Quad9Shapes(A, B, Z) ==
    { Quad9On(t[1].nodes[0], t[1].nodes[1], t[1].nodes[2], t[1].nodes[3],
              Pt(Frac(t[2], 4), Frac(t[2], 4), Zero)) :
        t \in Quad4Shapes(A, B, {0}) \X Z }

\* the elements of the end-to-end scenarios
Tri3Unit == Elem("TRI3", <<P3(0, 0, 0), P3(1, 0, 0), P3(0, 1, 0)>>)
Tri3Big == Elem("TRI3", <<P3(0, 0, 0), P3(2, 0, 0), P3(0, 3, 0)>>)
Tet4Unit == Elem("TET4", <<P3(0, 0, 0), P3(1, 0, 0), P3(0, 1, 0), P3(0, 0, 1)>>)
Quad4Unit == Elem("QUAD4", <<P3(0, 0, 0), P3(1, 0, 0), P3(1, 1, 0), P3(0, 1, 0)>>)
Quad4Rect == Elem("QUAD4", <<P3(0, 0, 0), P3(2, 0, 0), P3(2, 1, 0), P3(0, 1, 0)>>)
Quad9Unit ==
    Quad9On(P3(0, 0, 0), P3(1, 0, 0), P3(1, 1, 0), P3(0, 1, 0), Pt(Zero, Zero, Zero))
Edge2Diag == Elem("EDGE2", <<P3(0, 0, 0), P3(1, 2, 2)>>)

\* a quadrilateral with a reflex corner at node 2: J > 0 at some reference
\* points and J < 0 at others
Quad4Dart == Elem("QUAD4", <<P3(0, 0, 0), P3(4, 0, 0), P3(1, 1, 0), P3(0, 4, 0)>>)

Scenarios ==
    {Tri3Unit, Tri3Big, Tet4Unit, Quad4Unit, Quad4Rect, Quad4Dart, Quad9Unit, Edge2Diag}

Shapes(elem_type, A, B, Z) ==
    CASE elem_type = "EDGE2" -> Edge2Shapes(A, B, Z)
      [] elem_type = "TRI3" -> Tri3Shapes(A, B, Z)
      [] elem_type = "QUAD4" -> Quad4Shapes(A, B, Z)
      [] elem_type = "QUAD9" -> Quad9Shapes(A, B, Z)
      [] elem_type = "TET4" -> Tet4Shapes(A, B, Z)

\* the elements of one type a paired run draws from
Elements ==
    [elem_type \in ElemTypes |->
        { e \in Scenarios : e.type = elem_type }
            \cup Shapes(elem_type, {0}, Offsets, {0, 1})
            \cup Shapes(elem_type, Offsets, {0}, {0})]

\* What a sequence of calls on a calculator with this key draws from: the
\* scenario elements and the shapes with one node displaced, and elements
\* of other types (of which get_JxW reads the type only).
CallElements ==
    [elem_type \in ElemTypes |->
        { e \in Scenarios : e.type = elem_type }
            \cup Shapes(elem_type, Offsets, {0}, {0})
            \cup { e \in {Tri3Unit, Quad4Unit, Edge2Diag} : e.type # elem_type }]

\* all nodes of elem multiplied by s
Scaled(elem, s) ==
    [elem EXCEPT !.nodes =
        Table([i \in DOMAIN elem.nodes |->
                  Table([j \in 0 .. 2 |-> Mul(s, elem.nodes[i][j])])])]

\* the largest k for the scale factors k and 1/k of a paired run
MaxScale == 2

Scales ==
    { Num(k) : k \in 1 .. MaxScale } \cup { Frac(1, k) : k \in 2 .. MaxScale }

----------------------------------------------------------------------------
(* Calculators and calls                                                    *)

\* a variant of the instantiations with every pair of dimensions
InstantiationsAllPairs == (1 .. 3) \X (1 .. 3)

\* the instantiated pairs <dim, spacedim> of LagrangeJacobianCalculator
Instantiations == { <<1, 1>>, <<1, 2>>, <<1, 3>>, <<2, 2>>, <<2, 3>>, <<3, 3>> }

\* the specialised class for an element type, "" when there is none
SpecialisedKind(elem_type) ==
    CASE elem_type = "TRI3" -> "Tri3"
      [] elem_type = "QUAD4" -> "Quad4"
      [] elem_type = "QUAD9" -> "Quad9"
      [] elem_type = "TET4" -> "Tet4"
      [] OTHER -> ""

\* a calculator class with its key: the generic class instantiated for
\* the reference dimension of the key's element type, or the specialised
\* class of that element type
Configs ==
    { [kind |-> "Lagrange", dim |-> x[1][1], spacedim |-> x[1][2], quad_key |-> x[2]] :
        x \in { y \in Instantiations \X QuadKeys : y[1][1] = get_dim(y[2][1]) } }
    \cup
    { [kind |-> SpecialisedKind(k[1]), dim |-> get_dim(k[1]),
       spacedim |-> get_dim(k[1]), quad_key |-> k] :
        k \in { x \in QuadKeys : SpecialisedKind(x[1]) # "" } }

\* new C(quad_key) for the class named by cfg: [ok, obj]
Construct(cfg) ==
    CASE cfg.kind = "Lagrange" ->
            LagrangeJacobianCalculator(cfg.dim, cfg.spacedim, cfg.quad_key)
      [] cfg.kind = "Quad9" -> Quad9JacobianCalculator(cfg.quad_key)
      [] OTHER -> SpecialisedJacobianCalculator(cfg.kind, cfg.quad_key)

\* what construction gives for each class and key
Calculators == Table([cfg \in Configs |-> Construct(cfg)])

\* the pairs of calculators of a paired run: twice the same class, or the
\* specialised class beside LagrangeJacobianCalculator<d, d>, one key
ConfigPairs ==
    { p \in Configs \X Configs :
        /\ p[1].quad_key = p[2].quad_key
        /\ Calculators[p[1]].ok
        /\ Calculators[p[2]].ok
        /\ \/ p[1] = p[2]
           \/ /\ p[1].kind # "Lagrange"
              /\ p[2].kind = "Lagrange"
              /\ p[2].dim = p[2].spacedim }

Inst == {1, 2}

VARIABLES
    calc,  \* calc[i]: the calculator object i
    last,  \* last[i]: the element of the latest get_JxW call on i and how it ended
    ret,   \* ret[i]: what the latest returning call on i handed back
    held,  \* held[i]: what the returning call on i before that handed back
    seen,  \* the sequence the caller read through ret[1] after the first call
    plan,  \* what a run was set up with: the element and the scale factor of
           \* a paired run, the element and the motion of a rigid run, the
           \* request of a construction run, the mode and the elements of
           \* two callers
    thread, \* thread[t]: the position of caller t inside a get_JxW call
    op,    \* the AdvDiffCUIConservativeConvectiveOperator object
    hier,  \* hier[h][ln]: the patch data indices allocated on level ln of
           \* patch hierarchy h
    log    \* what the latest call on op did, in program order, and how it ended

convective == <<op, hier, log>>

vars == <<calc, last, ret, held, seen, plan, thread, convective>>

None == [none |-> TRUE]

NoCall == [elem |-> None, outcome |-> "none"]

\* a run of the calculators has no convective operator
NoOperator == op = None /\ hier = None /\ log = None

\* a variant of the return that hands back a copy of the buffer
ReturnCopy(i, JxW) == [val |-> JxW]

\* return d_JxW: a reference to the buffer of calculator i
ReturnJxW(i, JxW) == [ref |-> i]

\* the sequence seen through what a call handed back
Deref(r) == IF "ref" \in DOMAIN r THEN calc[r.ref].d_JxW ELSE r.val

\* one call calc[i].get_JxW(elem) by the caller
Call(i, elem) ==
    \E r \in {get_JxW(calc[i], elem)} :
        /\ calc' = [calc EXCEPT ![i] = r.obj]
        /\ last' = [last EXCEPT ![i] = [elem |-> elem, outcome |-> r.outcome]]
        /\ IF r.outcome = "returned"
           THEN /\ ret' = [ret EXCEPT ![i] = ReturnJxW(i, r.obj.d_JxW)]
                /\ held' = [held EXCEPT ![i] = ret[i]]
           ELSE UNCHANGED <<ret, held>>
        /\ UNCHANGED <<plan, thread, convective>>

\* Sequential use of one calculator: object 1 is called again and again on
\* arbitrary elements; object 2 is a second calculator built from the same
\* key and never called.
Init ==
    \E cfg \in Configs :
        /\ Calculators[cfg].ok
        /\ calc = [i \in Inst |-> Calculators[cfg].obj]
        /\ last = [i \in Inst |-> NoCall]
        /\ ret = [i \in Inst |-> None]
        /\ held = [i \in Inst |-> None]
        /\ seen = None
        /\ plan = None
        /\ thread = None
        /\ NoOperator

GetJxW ==
    /\ \E elem \in CallElements[calc[1].d_quad_key[1]] : Call(1, elem)
    /\ UNCHANGED seen

Next == GetJxW

Spec == Init /\ [][Next]_vars

\* A paired run: two calculators built from one key, an element and a
\* scale factor.  Object 1 is called on the element and then on the scaled
\* element, object 2 on the scaled element.
InitPair ==
    \E p \in ConfigPairs :
        \E elem \in Elements[p[1].quad_key[1]] :
            \E s \in Scales :
                /\ calc = [i \in Inst |-> Calculators[p[i]].obj]
                /\ last = [i \in Inst |-> NoCall]
                /\ ret = [i \in Inst |-> None]
                /\ held = [i \in Inst |-> None]
                /\ seen = None
                /\ plan = [elem |-> elem, scale |-> s]
                /\ thread = None
                /\ NoOperator

CallFirst ==
    /\ last[1].outcome = "none"
    /\ Call(1, plan.elem)
    /\ seen' = IF last'[1].outcome = "returned" THEN [val |-> Deref(ret[1])'] ELSE seen

CallAgain ==
    /\ last[1].outcome # "none"
    /\ last[1].elem = plan.elem
    /\ plan.scale # Num(1)
    /\ Call(1, Scaled(plan.elem, plan.scale))
    /\ UNCHANGED seen

CallSecond ==
    /\ last[2].outcome = "none"
    /\ Call(2, Scaled(plan.elem, plan.scale))
    /\ UNCHANGED seen

NextPair == CallFirst \/ CallAgain \/ CallSecond

SpecPair == InitPair /\ [][NextPair]_vars

\* the largest component of a translation vector
MaxShift == 1

\* the translation vectors: non-zero, components in 0 .. MaxShift
Shifts == { t \in (0 .. MaxShift) \X (0 .. MaxShift) \X (0 .. MaxShift) : t # <<0, 0, 0>> }

Mat3(r0, r1, r2) == Arr(<<Arr(r0), Arr(r1), Arr(r2)>>)

Identity3 ==
    Mat3(<<Num(1), Zero, Zero>>, <<Zero, Num(1), Zero>>, <<Zero, Zero, Num(1)>>)

\* rotations about the z axis: a quarter turn, and the turn by the angle
\* with cosine 3/5 and sine 4/5
QuarterTurnZ ==
    Mat3(<<Zero, Num(-1), Zero>>, <<Num(1), Zero, Zero>>, <<Zero, Zero, Num(1)>>)

TurnZ ==
    Mat3(<<Frac(3, 5), Frac(-4, 5), Zero>>, <<Frac(4, 5), Frac(3, 5), Zero>>,
         <<Zero, Zero, Num(1)>>)

\* rotations out of the plane: the turn about the x axis by the same
\* angle, and the cyclic exchange of the axes (a third of a turn about the
\* diagonal)
TurnX ==
    Mat3(<<Num(1), Zero, Zero>>, <<Zero, Frac(3, 5), Frac(-4, 5)>>,
         <<Zero, Frac(4, 5), Frac(3, 5)>>)

CycleAxes ==
    Mat3(<<Zero, Zero, Num(1)>>, <<Num(1), Zero, Zero>>, <<Zero, Num(1), Zero>>)

\* the rotations of an ambient space of spacedim dimensions
Rotations(spacedim) ==
    CASE spacedim = 1 -> {}
      [] spacedim = 2 -> {QuarterTurnZ, TurnZ}
      [] spacedim = 3 -> {QuarterTurnZ, TurnZ, TurnX, CycleAxes}

\* the rigid motions x -> R x + t of a run: the translations and the
\* rotations
Motions(spacedim) ==
    { [R |-> Identity3, t |-> Arr(<<Num(t[1]), Num(t[2]), Num(t[3])>>)] : t \in Shifts }
    \cup { [R |-> R, t |-> Arr(<<Zero, Zero, Zero>>)] : R \in Rotations(spacedim) }

\* R p + t for a point p
MovedPoint(p, m) ==
    Table([i \in 0 .. 2 |->
        Add(Add(Add(Mul(m.R[i][0], p[0]), Mul(m.R[i][1], p[1])),
                Mul(m.R[i][2], p[2])),
            m.t[i])])

\* all nodes of elem moved by m
Moved(elem, m) ==
    [elem EXCEPT !.nodes = Table([i \in DOMAIN elem.nodes |-> MovedPoint(elem.nodes[i], m)])]

\* A rigid run: two calculators of one class built from one key, an
\* element and its image under a rigid motion of the ambient space.
\* Object 1 is called on the element, object 2 on the image.
InitRigid ==
    \E cfg \in Configs :
        \E elem \in Elements[cfg.quad_key[1]] :
            \E m \in Motions(cfg.spacedim) :
                /\ Calculators[cfg].ok
                /\ calc = [i \in Inst |-> Calculators[cfg].obj]
                /\ last = [i \in Inst |-> NoCall]
                /\ ret = [i \in Inst |-> None]
                /\ held = [i \in Inst |-> None]
                /\ seen = None
                /\ plan = [elem |-> elem, motion |-> m]
                /\ thread = None
                /\ NoOperator

CallElement ==
    /\ last[1].outcome = "none"
    /\ Call(1, plan.elem)
    /\ UNCHANGED seen

CallMoved ==
    /\ last[2].outcome = "none"
    /\ Call(2, Moved(plan.elem, plan.motion))
    /\ UNCHANGED seen

NextRigid == CallElement \/ CallMoved

SpecRigid == InitRigid /\ [][NextRigid]_vars

\* the largest number of points of a rule outside the tables of QuadRule
MaxPoints == 4

\* Rules of the quadrature library that QuadRule holds no table for: up to
\* MaxPoints points at the corners of the reference square in any order,
\* with equal weights.  Among them are rules with a number of points that
\* is no square, tensor products in the order the constructor expects, and
\* the same points in other orders.
OtherPoints == { Pt(Num(x[1]), Num(x[2]), Zero) : x \in {-1, 1} \X {-1, 1} }

OtherRules ==
    UNION { { [points |-> Table(f), weights |-> Table([q \in 0 .. Q - 1 |-> Frac(4, Q)])] :
                f \in [0 .. Q - 1 -> OtherPoints] } : Q \in 1 .. MaxPoints }

\* the key of such a rule
OtherKey(rule) == <<"QUAD9", "OTHER", Size(rule.points)>>

\* new C(quad_key) for the request r, the base built on r.rule when the
\* request carries a rule: [ok, obj]
Built(r) ==
    IF r.rule = None THEN Calculators[[kind |-> r.kind, dim |-> r.dim,
                                       spacedim |-> r.spacedim, quad_key |-> r.quad_key]]
    ELSE IF r.kind = "Quad9" THEN Quad9Constructed(BaseMembers(r.quad_key, r.rule))
    ELSE LagrangeMembers(r.dim, r.spacedim, BaseMembers(r.quad_key, r.rule),
                         get_n_nodes(r.quad_key[1]))

\* the direct constructions: every class with every key of QuadRule, and
\* Quad9JacobianCalculator on the other rules
NewRequests ==
    { [op |-> "new", kind |-> cfg.kind, dim |-> cfg.dim, spacedim |-> cfg.spacedim,
       quad_key |-> cfg.quad_key, rule |-> None] : cfg \in Configs }
    \cup
    { [op |-> "new", kind |-> "Quad9", dim |-> 2, spacedim |-> 2,
       quad_key |-> OtherKey(rule), rule |-> rule] : rule \in OtherRules }

\* the rule the library builds for a request
RuleOf(r) ==
    IF r.rule = None
    THEN QuadRule(r.quad_key[2], get_dim(r.quad_key[1]), r.quad_key[3], r.quad_key[1])
    ELSE r.rule

\* whether the rule of a request is a tensor-product rule
TensorProductRule(r) == Quad9Constructed(BaseMembers(r.quad_key, RuleOf(r))).ok

\* the class the registry instantiates for a key: the specialised class of
\* the element type, for QUAD9 only when the rule is a tensor product, and
\* LagrangeJacobianCalculator<d_ref, spacedim> otherwise
Dispatch(r) ==
    IF SpecialisedKind(r.quad_key[1]) # ""
       /\ (r.quad_key[1] = "QUAD9" => TensorProductRule(r))
    THEN [r EXCEPT !.kind = SpecialisedKind(r.quad_key[1]),
                   !.spacedim = get_dim(r.quad_key[1])]
    ELSE [r EXCEPT !.kind = "Lagrange"]

\* the requests to the registry: a key and the ambient dimension
GetRequests ==
    { [op |-> "get", kind |-> "", dim |-> get_dim(x[1][1]), spacedim |-> x[2],
       quad_key |-> x[1], rule |-> None] :
        x \in { y \in QuadKeys \X (1 .. 3) : <<get_dim(y[1][1]), y[2]>> \in Instantiations } }
    \cup
    { [op |-> "get", kind |-> "", dim |-> 2, spacedim |-> x[2],
       quad_key |-> OtherKey(x[1]), rule |-> x[1]] : x \in OtherRules \X (2 .. 3) }

\* A construction run: a calculator is constructed directly or requested
\* from the registry, and when one was produced get_JxW is called on it.
InitNew ==
    \E r \in NewRequests \cup GetRequests :
        /\ calc = [i \in Inst |-> None]
        /\ last = [i \in Inst |-> NoCall]
        /\ ret = [i \in Inst |-> None]
        /\ held = [i \in Inst |-> None]
        /\ seen = None
        /\ plan = r
        /\ thread = None
        /\ NoOperator

\* the construction of the class named by request r: the object when the
\* constructor completed, no object when it ended in the fatal error
Make(r) ==
    \E b \in {Built(r)} :
        /\ calc' = [calc EXCEPT ![1] = IF b.ok THEN b.obj ELSE None]
        /\ seen' = [class   |-> r.kind,
                    outcome |-> IF b.ok THEN "constructed" ELSE "construction_error"]
        /\ UNCHANGED <<last, ret, held, plan, thread, convective>>

New ==
    /\ plan.op = "new"
    /\ seen = None
    /\ Make(plan)

Get ==
    /\ plan.op = "get"
    /\ seen = None
    /\ Make(Dispatch(plan))

CallNew ==
    /\ seen # None
    /\ seen.outcome = "constructed"
    /\ last[1].outcome = "none"
    /\ \E elem \in CallElements[calc[1].d_quad_key[1]] : Call(1, elem)
    /\ UNCHANGED seen

NextNew == New \/ Get \/ CallNew

SpecNew == InitNew /\ [][NextNew]_vars

\* the value of J that the call on calculator c computes for entry q of
\* the buffer: [ok, value]
StepJ(c, elem, q) ==
    CASE c.kind = "Lagrange" -> LagrangeJ(c, NodeCoords(c, elem), q)
      [] c.kind = "Tri3" -> [ok |-> TRUE, value |-> Tri3J(elem)]
      [] c.kind = "Quad4" -> [ok |-> TRUE, value |-> Quad4J(c, Quad4Constants(elem), q)]
      [] c.kind = "Quad9" -> [ok |-> TRUE, value |-> Quad9J(c, Quad9Coords(elem), q)]
      [] c.kind = "Tet4" -> [ok |-> TRUE, value |-> Tet4J(elem)]

\* the elements on which a call on a fresh calculator c returns
ValidElements(c) ==
    { e \in CallElements[c.d_quad_key[1]] : get_JxW(c, e).outcome = "returned" }

\* how two callers use calculators: both on one object with their steps
\* interleaved freely, both on one object with one call excluding the
\* other, or each on an object of its own
Modes == {"shared", "serialised", "distinct"}

\* the calculator object caller t calls
InstanceOf(t) == IF plan.mode = "distinct" THEN t ELSE 1

Idle == [pc |-> "idle", q |-> 0, read |-> None]

\* Two callers, each making one get_JxW call on an element of its own (a
\* scenario element for the first caller, any other valid element for the
\* second); a call proceeds in steps: the copy of the weights, one
\* multiplication per entry, the return.
InitThreads ==
    \E cfg \in Configs :
        \E mode \in Modes :
            /\ Calculators[cfg].ok
            /\ \E e2 \in ValidElements(Calculators[cfg].obj) :
                   \E e1 \in (ValidElements(Calculators[cfg].obj) \cap Scenarios) \ {e2} :
                       plan = [mode |-> mode, elems |-> <<e1, e2>>]
            /\ calc = [i \in Inst |-> Calculators[cfg].obj]
            /\ last = [i \in Inst |-> NoCall]
            /\ ret = [i \in Inst |-> None]
            /\ held = [i \in Inst |-> None]
            /\ seen = None
            /\ thread = [t \in Inst |-> Idle]
            /\ NoOperator

\* no TBOX_ASSERT has ended the program
Running == \A t \in Inst : thread[t].pc \in {"idle", "scale", "returned"}

\* TBOX_ASSERT(elem->type() == ...); std::copy(d_quad_weights ..., d_JxW.begin())
Copy(t) ==
    /\ Running
    /\ thread[t].pc = "idle"
    /\ plan.mode = "serialised" => \A u \in Inst : thread[u].pc # "scale"
    /\ IF type(plan.elems[t]) # calc[InstanceOf(t)].d_quad_key[1]
       THEN /\ thread' = [thread EXCEPT ![t].pc = "type_error"]
            /\ UNCHANGED calc
       ELSE /\ thread' = [thread EXCEPT ![t].pc = "scale"]
            /\ calc' = [calc EXCEPT ![InstanceOf(t)].d_JxW = std_copy(calc[InstanceOf(t)].d_quad_weights, @)]
    /\ UNCHANGED <<last, ret, held, seen, plan, convective>>

\* TBOX_ASSERT(J > 0.0); d_JxW[q] *= J
Multiply(t) ==
    /\ Running
    /\ thread[t].pc = "scale"
    /\ thread[t].q < Size(calc[InstanceOf(t)].d_JxW)
    /\ \E J \in {StepJ(calc[InstanceOf(t)], plan.elems[t], thread[t].q)} :
           IF ~J.ok \/ ~Gt0(J.value)
           THEN /\ thread' = [thread EXCEPT ![t].pc = "J_error"]
                /\ UNCHANGED calc
           ELSE /\ thread' = [thread EXCEPT ![t].q = @ + 1]
                /\ calc' = [calc EXCEPT ![InstanceOf(t)].d_JxW[thread[t].q] = Mul(@, J.value)]
    /\ UNCHANGED <<last, ret, held, seen, plan, convective>>

\* return d_JxW; the caller reads the sequence through the reference
Return(t) ==
    /\ Running
    /\ thread[t].pc = "scale"
    /\ thread[t].q = Size(calc[InstanceOf(t)].d_JxW)
    /\ thread' = [thread EXCEPT ![t].pc = "returned",
                                ![t].read = [val |-> calc[InstanceOf(t)].d_JxW]]
    /\ UNCHANGED <<calc, last, ret, held, seen, plan, convective>>

NextThreads == \E t \in Inst : Copy(t) \/ Multiply(t) \/ Return(t)

SpecThreads == InitThreads /\ [][NextThreads]_vars

----------------------------------------------------------------------------
(* Properties                                                               *)

Returned(i) == last[i].outcome = "returned"

Called(i) == last[i].outcome # "none"

\* the reference dimension of calculator i's element type
RefDim(i) == get_dim(calc[i].d_quad_key[1])

\* A without row 0 and column j, for an n x n matrix A
Minor(A, n, j) ==
    [r \in 0 .. n - 2 |-> [k \in 0 .. n - 2 |-> A[r + 1][IF k < j THEN k ELSE k + 1]]]

\* det(A) by expansion along row 0
RECURSIVE Det(_, _)
Det(A, n) ==
    IF n = 1 THEN A[0][0]
    ELSE SumTo([j \in 0 .. n - 1 |->
                   Mul(IF j % 2 = 0 THEN A[0][j] ELSE Neg(A[0][j]),
                       Det(Minor(A, n, j), n - 1))],
               0, n - 1)

\* F[i][j] = sum over nodes n of X[n][i] * G[n][q][j]
DeformationGradient(c, elem, q) ==
    [i \in 0 .. c.spacedim - 1 |->
        [j \in 0 .. c.dim - 1 |->
            SumTo([n \in 0 .. c.d_n_nodes - 1 |->
                      Mul(elem.nodes[n][i], c.d_dphi[n][q][j])],
                  0, c.d_n_nodes - 1)]]

\* M[a][b] = sum_i F[i][a] * F[i][b]
GramMatrix(c, F) ==
    [a \in 0 .. c.dim - 1 |->
        [b \in 0 .. c.dim - 1 |->
            SumTo([i \in 0 .. c.spacedim - 1 |-> Mul(F[i][a], F[i][b])],
                  0, c.spacedim - 1)]]

\* the square root of a rational x >= 0
Root(x) == IF x[1] = 0 THEN Zero ELSE <<x[1], x[2], 2>>

\* J_q: det(F) when dim = spacedim, sqrt(det(M)) otherwise
VolumeFactor(c, elem, q) ==
    IF c.dim = c.spacedim
    THEN Det(DeformationGradient(c, elem, q), c.dim)
    ELSE Root(Det(GramMatrix(c, DeformationGradient(c, elem, q)), c.dim))

\* C1: whenever LagrangeJacobianCalculator<dim, spacedim>::get_JxW returns
\* on an element of the key's type, d_JxW[q] = w_q * J_q for every q, with
\* J_q = det(F) when dim = spacedim and sqrt(det(F^T F)) otherwise, F the
\* sum over the nodes of coordinates times precomputed shape derivatives.
C1_LagrangePostcondition ==
    \A i \in Inst :
        (calc[i].kind = "Lagrange" /\ Returned(i)) =>
            \A q \in DOMAIN calc[i].d_JxW :
                calc[i].d_JxW[q]
                    = Mul(calc[i].d_quad_weights[q],
                          VolumeFactor(calc[i], last[i].elem, q))

\* a LagrangeJacobianCalculator<2, 3> returned on a QUAD4 element with a
\* node out of the plane, for a rule of several points
C1_Witness ==
    /\ calc[2].kind = "Lagrange"
    /\ calc[2].dim = 2
    /\ calc[2].spacedim = 3
    /\ calc[2].d_quad_key[1] = "QUAD4"
    /\ Size(calc[2].d_JxW) > 1
    /\ Returned(2)
    /\ last[2].elem.nodes[2][2] # Zero

\* C2: with quadrature weights that are all strictly positive, every entry
\* of the sequence a returning get_JxW call hands back is strictly
\* positive, for every kind of calculator, any element and any earlier
\* calls.
C2_PositiveEntries ==
    ((\A q \in DOMAIN calc[1].d_quad_weights : calc[1].d_quad_weights[q][1] > 0)
        /\ Returned(1)) =>
        \A q \in DOMAIN Deref(ret[1]) : Deref(ret[1])[q][1] > 0

\* a second returning call on a calculator with positive weights and
\* several quadrature points
C2_Witness ==
    /\ \A q \in DOMAIN calc[1].d_quad_weights : calc[1].d_quad_weights[q][1] > 0
    /\ Size(calc[1].d_JxW) > 1
    /\ Returned(1)
    /\ held[1] # None

\* the value of J the kernel of calculator c computes at point q for elem
ComputedJ(c, elem, q) ==
    CASE c.kind = "Lagrange" -> LagrangeJ(c, NodeCoords(c, elem), q).value
      [] c.kind = "Tri3" -> Tri3J(elem)
      [] c.kind = "Quad4" -> Quad4J(c, Quad4Constants(elem), q)
      [] c.kind = "Quad9" -> Quad9J(c, Quad9Coords(elem), q)
      [] c.kind = "Tet4" -> Tet4J(elem)

\* C3: in every get_JxW, a computed J <= 0 at any quadrature point makes
\* the call end in the fatal error and hand back nothing, also for a
\* mirror-image element, whose J is negative with |J| > 0.
C3_NonPositiveJFatal ==
    (/\ Called(1)
     /\ last[1].elem.type = calc[1].d_quad_key[1]
     /\ \E q \in DOMAIN calc[1].d_JxW :
            ComputedJ(calc[1], last[1].elem, q)[1] <= 0) =>
        last[1].outcome = "J_error"

\* a call on a mirror-image element, J negative at every point, that ended
\* in the fatal error after an earlier call had returned
C3_Witness ==
    /\ last[1].outcome = "J_error"
    /\ ret[1] # None
    /\ \A q \in DOMAIN calc[1].d_JxW :
           ComputedJ(calc[1], last[1].elem, q)[1] < 0

\* C4: a get_JxW call with an element whose type differs from the element
\* type of the calculator's key ends in the fatal error, in each of the
\* five kernels.
C4_TypeMismatchFatal ==
    (Called(1) /\ last[1].elem.type # calc[1].d_quad_key[1]) =>
        last[1].outcome = "type_error"

\* a mismatched call on a Quad9JacobianCalculator after a returning call
C4_Witness ==
    /\ calc[1].kind = "Quad9"
    /\ last[1].outcome = "type_error"
    /\ last[1].elem.type # calc[1].d_quad_key[1]
    /\ ret[1] # None

\* C5: after any earlier calls, a returning get_JxW(e) leaves in the buffer
\* the sequence that get_JxW(e) gives on a freshly constructed calculator
\* with the same key (object 2, never called).
C5_HistoryIndependent ==
    Returned(1) =>
        \A fresh \in {get_JxW(calc[2], last[1].elem)} :
            /\ fresh.outcome = "returned"
            /\ Deref(ret[1]) = fresh.obj.d_JxW

\* a returning call after an earlier returning call that left other
\* values in the buffer than the rule's weights or zeros
C5_Witness ==
    /\ Returned(1)
    /\ held[1] # None
    /\ Size(calc[1].d_JxW) > 1
    /\ calc[1].d_JxW # calc[1].d_quad_weights

\* C6: a specialised calculator and LagrangeJacobianCalculator<d, d> built
\* from the same key and called on the same element end the same way, and
\* when they return their buffers are equal at every q.
C6_SpecialisedAgreesWithLagrange ==
    (/\ calc[1].kind # "Lagrange"
     /\ calc[2].kind = "Lagrange"
     /\ Called(1)
     /\ Called(2)
     /\ last[1].elem = last[2].elem) =>
        /\ last[1].outcome = last[2].outcome
        /\ Returned(1) => calc[1].d_JxW = calc[2].d_JxW

\* a Quad9JacobianCalculator and LagrangeJacobianCalculator<2, 2> that both
\* returned on one element with a displaced centre node, four points
C6_Witness ==
    /\ calc[1].kind = "Quad9"
    /\ calc[2].kind = "Lagrange"
    /\ Size(calc[1].d_JxW) > 1
    /\ Returned(1)
    /\ Returned(2)
    /\ last[1].elem = last[2].elem
    /\ last[1].elem.nodes[8]
           # Mid(Mid(last[1].elem.nodes[0], last[1].elem.nodes[1]),
                 Mid(last[1].elem.nodes[2], last[1].elem.nodes[3]))

\* C7: what a returning call hands back is a reference to the calculator's
\* one buffer; after get_JxW(e1) and a returning get_JxW(e2) on the same
\* calculator, the sequence seen through the first reference is the result
\* for e2 (what a second calculator of the same class and key gives for
\* e2), and no longer the result for e1 that was seen before.
C7_ReferenceOverwritten ==
    /\ \A i \in Inst : ret[i] # None => ret[i] = [ref |-> i]
    /\ (held[1] # None /\ Returned(1)) =>
        /\ DOMAIN Deref(held[1]) = DOMAIN calc[1].d_quad_weights
        /\ (calc[2].kind = calc[1].kind /\ Returned(2) /\ last[2].elem = last[1].elem) =>
               Deref(held[1]) = Deref(ret[2])
        /\ plan.scale # Num(1) => Deref(held[1]) # seen.val

\* both calls on calculator 1 returned, the second on another element, and
\* a second calculator of the same class returned on that element
C7_Witness ==
    /\ held[1] # None
    /\ Returned(1)
    /\ calc[2].kind = calc[1].kind
    /\ Returned(2)
    /\ last[2].elem = last[1].elem
    /\ plan.scale # Num(1)
    /\ Size(calc[1].d_JxW) > 1

\* C8: d_JxW, d_quad_weights and d_quad_points have one length Q, and a
\* get_JxW call, returning or failing, changes nothing but the contents of
\* d_JxW: the calculator stays equal, d_JxW apart, to the calculator as
\* constructed (object 2, never called).
C8_OnlyBufferContentsChange ==
    /\ \A i \in Inst :
        /\ DOMAIN calc[i].d_JxW = DOMAIN calc[i].d_quad_weights
        /\ DOMAIN calc[i].d_JxW = DOMAIN calc[i].d_quad_points
        /\ DOMAIN calc[i].d_JxW = 0 .. Size(calc[i].d_JxW) - 1
    /\ [calc[1] EXCEPT !.d_JxW = calc[2].d_JxW] = calc[2]

\* a failed call after a returning call, the buffer no longer as constructed
C8_Witness ==
    /\ last[1].outcome = "J_error"
    /\ ret[1] # None
    /\ calc[1].d_JxW # calc[2].d_JxW
    /\ "d_dphi" \in DOMAIN calc[1]

\* sum of all entries of f
Total(f) == SumTo(f, 0, Size(f) - 1)

\* the first moment of the rule of calculator c along reference axis d
FirstMoment(c, d) ==
    Total([q \in DOMAIN c.d_quad_weights |->
              Mul(c.d_quad_weights[q], c.d_quad_points[q][d])])

\* twice the signed area of the polygon through the n first nodes, in the
\* plane of the first two coordinates
TwiceArea(nodes, n) ==
    Total([k \in 0 .. n - 1 |->
              Sub(Mul(nodes[k][0], nodes[(k + 1) % n][1]),
                  Mul(nodes[(k + 1) % n][0], nodes[k][1]))])

\* u . (v x w)
TripleProduct(u, v, w) ==
    Add(Add(Mul(u[0], Sub(Mul(v[1], w[2]), Mul(v[2], w[1]))),
            Mul(u[1], Sub(Mul(v[2], w[0]), Mul(v[0], w[2])))),
        Mul(u[2], Sub(Mul(v[0], w[1]), Mul(v[1], w[0]))))

Edge(nodes, a, b) == [j \in 0 .. 2 |-> Sub(nodes[b][j], nodes[a][j])]

\* area of a triangle or quadrilateral, volume of a tetrahedron
Measure(elem) ==
    CASE elem.type = "TRI3" -> Mul(Frac(1, 2), TwiceArea(elem.nodes, 3))
      [] elem.type = "QUAD4" -> Mul(Frac(1, 2), TwiceArea(elem.nodes, 4))
      [] elem.type = "TET4" ->
            Mul(Frac(1, 6), TripleProduct(Edge(elem.nodes, 0, 1), Edge(elem.nodes, 0, 2),
                                          Edge(elem.nodes, 0, 3)))

\* the rule of calculator c integrates the Jacobian of its element type
\* exactly: the weights sum to the reference measure and, for QUAD4, have
\* zero first moments
ExactForJacobian(c) ==
    CASE c.d_quad_key[1] = "TRI3" -> Total(c.d_quad_weights) = Frac(1, 2)
      [] c.d_quad_key[1] = "TET4" -> Total(c.d_quad_weights) = Frac(1, 6)
      [] c.d_quad_key[1] = "QUAD4" ->
            /\ Total(c.d_quad_weights) = Num(4)
            /\ FirstMoment(c, 0) = Zero
            /\ FirstMoment(c, 1) = Zero
      [] OTHER -> FALSE

\* elem lies in the space its calculator works in: a TET4, or an element
\* in the plane z = 0
InSpace(elem) ==
    elem.type = "TET4" \/ \A n \in DOMAIN elem.nodes : elem.nodes[n][2] = Zero

\* a calculator whose J is det(F)
Volumetric(c) == c.kind # "Lagrange" \/ c.dim = c.spacedim

\* the sum of the result of calculator i is v when i returned on elem
SumIs(i, elem, v) == (Returned(i) /\ last[i].elem = elem) => Total(calc[i].d_JxW) = v

\* C9: when get_JxW returns on a Tri3, Tet4 or Quad4 element and the rule
\* integrates the Jacobian exactly (weights summing to 1/2, to 1/6, or to 4
\* with zero first moments), the entries sum to the element's measure; the
\* sums are 1/2 and 3 for the two triangles, 1/6 for the unit tetrahedron,
\* 1 and 2 for the unit square and the 2 x 1 rectangle.
C9_SumIsMeasure ==
    \A i \in Inst :
        (Volumetric(calc[i]) /\ ExactForJacobian(calc[i])) =>
            /\ (Returned(i) /\ InSpace(last[i].elem)) =>
                   Total(calc[i].d_JxW) = Measure(last[i].elem)
            /\ SumIs(i, Tri3Unit, Frac(1, 2))
            /\ SumIs(i, Tri3Big, Num(3))
            /\ SumIs(i, Tet4Unit, Frac(1, 6))
            /\ SumIs(i, Quad4Unit, Num(1))
            /\ SumIs(i, Quad4Rect, Num(2))

\* a Quad4JacobianCalculator returned on a scaled quadrilateral that is no
\* parallelogram, with a rule of several points
C9_Witness ==
    /\ calc[1].kind = "Quad4"
    /\ Size(calc[1].d_JxW) > 1
    /\ Returned(1)
    /\ last[1].elem # plan.elem
    /\ ExactForJacobian(calc[1])
    /\ Sub(last[1].elem.nodes[1][0], last[1].elem.nodes[0][0])
           # Sub(last[1].elem.nodes[2][0], last[1].elem.nodes[3][0])

RECURSIVE Pow(_, _)
Pow(s, k) == IF k = 0 THEN Num(1) ELSE Mul(s, Pow(s, k - 1))

\* C10: when get_JxW returns on element e, it also returns on e with all
\* node coordinates multiplied by s > 0 (here on a second calculator of
\* the same class and key), and each entry is s^d times the entry for e,
\* d the reference dimension, in the manifold case as well.
C10_UniformScaling ==
    (/\ calc[1].kind = calc[2].kind
     /\ seen # None
     /\ Called(2)) =>
        /\ Returned(2)
        /\ \A q \in DOMAIN calc[2].d_JxW :
               calc[2].d_JxW[q] = Mul(Pow(plan.scale, RefDim(2)), seen.val[q])

\* a manifold calculator returned on an element and on the element scaled
\* by a factor other than 1
C10_Witness ==
    /\ calc[1] = [calc[2] EXCEPT !.d_JxW = calc[1].d_JxW]
    /\ calc[2].kind = "Lagrange"
    /\ calc[2].dim < calc[2].spacedim
    /\ seen # None
    /\ Returned(2)
    /\ plan.scale # Num(1)
    /\ last[2].elem # plan.elem

\* C11: for every kernel, get_JxW on an element and on its image under a
\* translation of all nodes, or under a rotation of all nodes (in the plane
\* for the kernels of the plane, in space for Tet4 and the kernels of
\* three ambient dimensions), end the same way, and when they return they
\* return the same sequence.
C11_RigidMotionInvariant ==
    ("motion" \in DOMAIN plan /\ Called(1) /\ Called(2)) =>
        /\ last[1].outcome = last[2].outcome
        /\ Returned(1) => Deref(ret[1]) = Deref(ret[2])

\* a Lagrange<2, 3> calculator returned on an element and on its image
\* under the turn about the x axis, the element out of the plane
C11_Witness ==
    /\ "motion" \in DOMAIN plan
    /\ plan.motion.R = TurnX
    /\ calc[1].kind = "Lagrange"
    /\ calc[1].dim = 2
    /\ calc[1].spacedim = 3
    /\ Returned(1)
    /\ Returned(2)
    /\ \E n \in DOMAIN plan.elem.nodes : plan.elem.nodes[n][2] # Zero
    /\ Size(calc[1].d_JxW) > 1

\* the rule handed to the construction of a run
PlanRule == RuleOf(plan)

\* the rule has Q1 * Q1 points for Q1 the integer nearest to sqrt(Q), and
\* the point of index j * Q1 + i is (p_i, p_j), p_i the x coordinate of
\* point i
TensorOf(points, Q1) ==
    /\ (2 * Q1 - 1) * (2 * Q1 - 1) < 4 * Size(points)
    /\ 4 * Size(points) < (2 * Q1 + 1) * (2 * Q1 + 1)
    /\ Size(points) = Q1 * Q1
    /\ \A j \in 0 .. Q1 - 1 :
           \A i \in 0 .. Q1 - 1 :
               /\ points[j * Q1 + i][0] = points[i][0]
               /\ points[j * Q1 + i][1] = points[j][0]
               /\ points[j * Q1 + i][2] = Zero

ConstructedQuad9 ==
    /\ "op" \in DOMAIN plan
    /\ plan.op = "new"
    /\ plan.kind = "Quad9"
    /\ seen # None

\* C12: the construction of Quad9JacobianCalculator produces a calculator
\* only for a rule of Q = Q1 * Q1 points, Q1 = round(sqrt(Q)), whose point
\* j * Q1 + i is (p_i, p_j) with p_i the x coordinate of point i; for any
\* other rule it ends in the fatal error and no calculator exists.
C12_Quad9NeedsTensorRule ==
    ConstructedQuad9 =>
        IF \E Q1 \in 0 .. Size(PlanRule.points) : TensorOf(PlanRule.points, Q1)
        THEN seen.outcome = "constructed" /\ calc[1].kind = "Quad9"
        ELSE seen.outcome = "construction_error" /\ calc[1] = None

\* a rule of four points that is no tensor product in the constructor's
\* order although its first row is one was refused
C12_Witness ==
    /\ ConstructedQuad9
    /\ seen.outcome = "construction_error"
    /\ calc[1] = None
    /\ Size(PlanRule.points) = 4
    /\ PlanRule.points[0][1] = PlanRule.points[0][0]
    /\ PlanRule.points[1][1] = PlanRule.points[0][0]
    /\ PlanRule.points[0][0] # PlanRule.points[1][0]

RequestedQuad9 ==
    /\ "op" \in DOMAIN plan
    /\ plan.op = "get"
    /\ plan.quad_key[1] = "QUAD9"
    /\ seen # None

Sequential(t) ==
    get_JxW([calc[1] EXCEPT !.d_JxW = Table([q \in DOMAIN calc[1].d_JxW |-> Zero])],
            plan.elems[t]).obj.d_JxW

\* C15: when two get_JxW calls on two different valid elements are
\* serialised on one calculator, or run on two calculators built from one
\* key, each caller reads its own element's sequential result on return,
\* however the steps interleave.  (On one calculator without exclusion a
\* run reaches a returned sequence that is neither sequential result:
\* C15_Witness.)
C15_ExclusiveCallsSequential ==
    (thread # None /\ plan.mode # "shared") =>
        \A t \in Inst :
            thread[t].pc = "returned" => thread[t].read.val = Sequential(t)

\* on one shared calculator a caller has returned and read a sequence that
\* is neither element's sequential result, with an entry that is the weight
\* scaled by both Jacobians
C15_Witness ==
    /\ thread # None
    /\ plan.mode = "shared"
    /\ \E t \in Inst :
           /\ thread[t].pc = "returned"
           /\ thread[t].read.val # Sequential(1)
           /\ thread[t].read.val # Sequential(2)
           /\ \E q \in DOMAIN thread[t].read.val :
                  thread[t].read.val[q]
                      = Mul(Mul(calc[1].d_quad_weights[q],
                                StepJ(calc[1], plan.elems[1], q).value),
                            StepJ(calc[1], plan.elems[2], q).value)

\* the 3 x 3 matrix whose columns are p1 - p0, p2 - p0, p3 - p0
EdgeMatrix(nodes) ==
    [r \in 0 .. 2 |-> [k \in 0 .. 2 |-> Sub(nodes[k + 1][r], nodes[0][r])]]

\* the single J of an affine element: (x1-x0)(y2-y0) - (x2-x0)(y1-y0) for
\* TRI3, the determinant of the edge matrix for TET4
AffineJ(elem) ==
    IF elem.type = "TRI3"
    THEN Sub(Mul(Sub(elem.nodes[1][0], elem.nodes[0][0]),
                 Sub(elem.nodes[2][1], elem.nodes[0][1])),
             Mul(Sub(elem.nodes[2][0], elem.nodes[0][0]),
                 Sub(elem.nodes[1][1], elem.nodes[0][1])))
    ELSE Det(EdgeMatrix(elem.nodes), 3)

\* C16: a returning get_JxW of the Tri3 or Tet4 kernel leaves
\* d_JxW[q] = w_q * J for every q with one J computed from the corner
\* nodes: (x1-x0)(y2-y0) - (x2-x0)(y1-y0) for Tri3, the determinant of
\* [p1-p0 | p2-p0 | p3-p0] for Tet4; J = 1 on the triangle (0,0),(1,0),(0,1)
\* and J = 6 on (0,0),(2,0),(0,3).
C16_AffineSingleJ ==
    /\ (calc[1].kind \in {"Tri3", "Tet4"} /\ Returned(1)) =>
            \A q \in DOMAIN calc[1].d_JxW :
                Deref(ret[1])[q] = Mul(calc[1].d_quad_weights[q], AffineJ(last[1].elem))
    /\ (calc[1].kind = "Tri3" /\ Called(1) /\ last[1].elem = Tri3Unit) =>
            /\ Returned(1)
            /\ ComputedJ(calc[1], last[1].elem, 0) = Num(1)
    /\ (calc[1].kind = "Tri3" /\ Called(1) /\ last[1].elem = Tri3Big) =>
            /\ Returned(1)
            /\ ComputedJ(calc[1], last[1].elem, 0) = Num(6)

\* the Tri3 kernel with a rule of several points returned on the triangle
\* (0,0),(2,0),(0,3) after an earlier call on another element
C16_Witness ==
    /\ calc[1].kind = "Tri3"
    /\ Size(calc[1].d_JxW) > 2
    /\ Returned(1)
    /\ last[1].elem = Tri3Big
    /\ held[1] # None
    /\ \A q \in DOMAIN calc[1].d_JxW :
           Deref(ret[1])[q] = Mul(calc[1].d_quad_weights[q], Num(6))

\* the combinations (-v0+v1+v2-v3)/4, (-v0-v1+v2+v3)/4, (v0-v1+v2-v3)/4 of
\* coordinate d of the four corners
CornerA(nodes, d) ==
    Mul(Frac(1, 4), Sub(Add(nodes[1][d], nodes[2][d]), Add(nodes[0][d], nodes[3][d])))

CornerB(nodes, d) ==
    Mul(Frac(1, 4), Sub(Add(nodes[2][d], nodes[3][d]), Add(nodes[0][d], nodes[1][d])))

CornerC(nodes, d) ==
    Mul(Frac(1, 4), Sub(Add(nodes[0][d], nodes[2][d]), Add(nodes[1][d], nodes[3][d])))

\* (a1 + c1 eta)(b2 + c2 xi) - (b1 + c1 xi)(a2 + c2 eta)
BilinearJ(nodes, xi, eta) ==
    Sub(Mul(Add(CornerA(nodes, 0), Mul(CornerC(nodes, 0), eta)),
            Add(CornerB(nodes, 1), Mul(CornerC(nodes, 1), xi))),
        Mul(Add(CornerB(nodes, 0), Mul(CornerC(nodes, 0), xi)),
            Add(CornerA(nodes, 1), Mul(CornerC(nodes, 1), eta))))

\* a1 b2 - b1 a2
BilinearJ0(nodes) ==
    Sub(Mul(CornerA(nodes, 0), CornerB(nodes, 1)),
        Mul(CornerB(nodes, 0), CornerA(nodes, 1)))

\* the same J written without a product of xi and eta:
\* (a1 b2 - b1 a2) + (a1 c2 - c1 a2) xi + (c1 b2 - b1 c2) eta
AffineFormJ(nodes, xi, eta) ==
    Add(Add(BilinearJ0(nodes),
            Mul(Sub(Mul(CornerA(nodes, 0), CornerC(nodes, 1)),
                    Mul(CornerC(nodes, 0), CornerA(nodes, 1))), xi)),
        Mul(Sub(Mul(CornerC(nodes, 0), CornerB(nodes, 1)),
                Mul(CornerB(nodes, 0), CornerC(nodes, 1))), eta))

\* J of the Quad4 kernel is v at every quadrature point of the latest call
\* on calculator 1, and the call returned w_q * v
ConstantJ(v) ==
    /\ Returned(1)
    /\ \A q \in DOMAIN calc[1].d_JxW :
           /\ ComputedJ(calc[1], last[1].elem, q) = v
           /\ Deref(ret[1])[q] = Mul(calc[1].d_quad_weights[q], v)

\* C17: for the Quad4 kernel, J at the quadrature point (xi, eta) is
\* (a1 + c1 eta)(b2 + c2 xi) - (b1 + c1 xi)(a2 + c2 eta) with the claim's
\* a, b, c, and a returning call leaves w_q times it; this J is affine in
\* xi and eta; with c1 = c2 = 0 it is the same at every point; it is 1/4
\* on the unit square and 1/2 on (0,0),(2,0),(2,1),(0,1).
C17_Quad4Formula ==
    (calc[1].kind = "Quad4" /\ Called(1) /\ last[1].elem.type = "QUAD4") =>
        /\ \A q \in DOMAIN calc[1].d_JxW :
               /\ ComputedJ(calc[1], last[1].elem, q)
                      = BilinearJ(last[1].elem.nodes, calc[1].d_quad_points[q][0],
                                  calc[1].d_quad_points[q][1])
               /\ Returned(1) =>
                      Deref(ret[1])[q]
                          = Mul(calc[1].d_quad_weights[q],
                                BilinearJ(last[1].elem.nodes, calc[1].d_quad_points[q][0],
                                          calc[1].d_quad_points[q][1]))
               /\ BilinearJ(last[1].elem.nodes, calc[1].d_quad_points[q][0],
                            calc[1].d_quad_points[q][1])
                      = AffineFormJ(last[1].elem.nodes, calc[1].d_quad_points[q][0],
                                    calc[1].d_quad_points[q][1])
               /\ (CornerC(last[1].elem.nodes, 0) = Zero
                      /\ CornerC(last[1].elem.nodes, 1) = Zero) =>
                      ComputedJ(calc[1], last[1].elem, q) = BilinearJ0(last[1].elem.nodes)
        /\ last[1].elem = Quad4Unit => ConstantJ(Frac(1, 4))
        /\ last[1].elem = Quad4Rect => ConstantJ(Frac(1, 2))

\* the Quad4 kernel with the nine-point rule returned on the rectangle
\* (0,0),(2,0),(2,1),(0,1) with J = 1/2 at every point
C17_Witness ==
    /\ calc[1].kind = "Quad4"
    /\ Size(calc[1].d_JxW) = 9
    /\ last[1].elem = Quad4Rect
    /\ ConstantJ(Frac(1, 2))

\* the node numbers on the logical grid: row a (y), column b (x)
LogicalGrid == Arr(<<Arr(<<0, 4, 1>>), Arr(<<7, 8, 5>>), Arr(<<3, 6, 2>>)>>)

\* the quadratic 1-D basis functions on the nodes -1, 0, 1, numbered from
\* left to right, and their derivatives
Basis(b, x) ==
    CASE b = 0 -> Mul(Frac(1, 2), Mul(x, Sub(x, Num(1))))
      [] b = 1 -> Sub(Num(1), Mul(x, x))
      [] b = 2 -> Mul(Frac(1, 2), Mul(x, Add(x, Num(1))))

BasisDeriv(b, x) ==
    CASE b = 0 -> Sub(x, Frac(1, 2))
      [] b = 1 -> Mul(Num(-2), x)
      [] b = 2 -> Add(x, Frac(1, 2))

\* the sum over a, b of v[a][b] * fx(b, xi) * fy(a, eta) for coordinate d
\* of the nodes, with fx, fy the basis (0) or its derivative (1)
GridSum(nodes, d, xi, eta, dx, dy) ==
    SumTo([k \in 0 .. 8 |->
              Mul(nodes[LogicalGrid[k \div 3][k % 3]][d],
                  Mul(IF dx = 1 THEN BasisDeriv(k % 3, xi) ELSE Basis(k % 3, xi),
                      IF dy = 1 THEN BasisDeriv(k \div 3, eta) ELSE Basis(k \div 3, eta)))],
          0, 8)

\* J00 * J11 - J01 * J10 at the reference point (xi, eta)
BiquadraticJ(nodes, xi, eta) ==
    Sub(Mul(GridSum(nodes, 0, xi, eta, 1, 0), GridSum(nodes, 1, xi, eta, 0, 1)),
        Mul(GridSum(nodes, 0, xi, eta, 0, 1), GridSum(nodes, 1, xi, eta, 1, 0)))

\* C18: for the Quad9 kernel, with the nodes on the logical grid
\* (0, 4, 1), (7, 8, 5), (3, 6, 2) and the 1-D quadratic basis numbered left
\* to right, J at quadrature point q (qx = q mod Q1, qy = q div Q1) is
\* J00 * J11 - J01 * J10, J00 = sum x[a][b] dphi[b][qx] phi[a][qy],
\* J01 = sum x[a][b] phi[b][qx] dphi[a][qy], J10 and J11 the same with y,
\* and a returning call leaves w_q * J.
C18_Quad9Formula ==
    \A i \in Inst :
        (calc[i].kind = "Quad9" /\ Called(i) /\ last[i].elem.type = "QUAD9") =>
            \A q \in DOMAIN calc[i].d_JxW :
                /\ ComputedJ(calc[i], last[i].elem, q)
                       = BiquadraticJ(last[i].elem.nodes, calc[i].d_quad_points[q][0],
                                      calc[i].d_quad_points[q][1])
                /\ Returned(i) =>
                       calc[i].d_JxW[q]
                           = Mul(calc[i].d_quad_weights[q],
                                 BiquadraticJ(last[i].elem.nodes,
                                              calc[i].d_quad_points[q][0],
                                              calc[i].d_quad_points[q][1]))

\* the Quad9 kernel with the nine-point rule returned on an element whose
\* corners form no parallelogram and whose centre node is off the average
\* of the corners
C18_Witness ==
    /\ calc[1].kind = "Quad9"
    /\ Size(calc[1].d_JxW) = 9
    /\ Returned(1)
    /\ last[1].elem.type = "QUAD9"
    /\ CornerC(last[1].elem.nodes, 0) # Zero
    /\ last[1].elem.nodes[8][0]
           # Mul(Frac(1, 4), Add(Add(last[1].elem.nodes[0][0], last[1].elem.nodes[1][0]),
                                 Add(last[1].elem.nodes[2][0], last[1].elem.nodes[3][0])))

\* the QUAD4 element on the four corners of a QUAD9 element
CornerElement(elem) ==
    [type |-> "QUAD4", nodes |-> [n \in 0 .. 3 |-> elem.nodes[n]]]

\* the mid-side nodes are the midpoints of the sides and the centre node
\* is the average of the corners
StraightSided(elem) ==
    \A d \in 0 .. 2 :
        /\ \A n \in 0 .. 3 :
               Mul(Num(2), elem.nodes[4 + n][d])
                   = Add(elem.nodes[n][d], elem.nodes[(n + 1) % 4][d])
        /\ Mul(Num(4), elem.nodes[8][d])
               = Add(Add(elem.nodes[0][d], elem.nodes[1][d]),
                     Add(elem.nodes[2][d], elem.nodes[3][d]))

\* the Quad4JacobianCalculator built for the rule of calculator c
Quad4Twin(c) ==
    Calculators[[kind |-> "Quad4", dim |-> 2, spacedim |-> 2,
                 quad_key |-> <<"QUAD4", c.d_quad_key[2], c.d_quad_key[3]>>]].obj

\* C19: on a QUAD9 element with straight sides (mid-side nodes at the
\* midpoints, centre node at the average of the corners) the Quad9 kernel
\* computes at every quadrature point the J that the Quad4 kernel computes
\* there for the element on the four corners, and ends as the Quad4 kernel
\* does with the same sequence; on the unit square J is 1/4 at every point
\* and the returned values sum to 1.
C19_Quad9MatchesQuad4 ==
    \A i \in Inst :
        (calc[i].kind = "Quad9" /\ Called(i) /\ last[i].elem.type = "QUAD9"
            /\ StraightSided(last[i].elem)) =>
            /\ \A q \in DOMAIN calc[i].d_JxW :
                   ComputedJ(calc[i], last[i].elem, q)
                       = Quad4J(Quad4Twin(calc[i]),
                                Quad4Constants(CornerElement(last[i].elem)), q)
            /\ \E r \in {Quad4_get_JxW(Quad4Twin(calc[i]), CornerElement(last[i].elem))} :
                   /\ r.outcome = last[i].outcome
                   /\ r.obj.d_JxW = calc[i].d_JxW
            /\ last[i].elem = Quad9Unit =>
                   /\ Returned(i)
                   /\ \A q \in DOMAIN calc[i].d_JxW :
                          ComputedJ(calc[i], last[i].elem, q) = Frac(1, 4)
                   /\ Total(calc[i].d_JxW) = Num(1)

\* the Quad9 kernel with the nine-point rule returned on a straight-sided
\* element whose corners form no parallelogram
C19_Witness ==
    /\ calc[1].kind = "Quad9"
    /\ Size(calc[1].d_JxW) = 9
    /\ Returned(1)
    /\ last[1].elem.type = "QUAD9"
    /\ StraightSided(last[1].elem)
    /\ CornerC(last[1].elem.nodes, 1) # Zero
    /\ ComputedJ(calc[1], last[1].elem, 0) # ComputedJ(calc[1], last[1].elem, 8)

\* a and b are the same real number
Same(a, b) == AsRoot(a) = AsRoot(b)

\* LagrangeJacobianCalculator<1, 3> with key (EDGE2, QGAUSS, 1) was called
\* on the element with nodes (0,0,0) and (1,2,2)
OnDiagonalEdge ==
    /\ calc[1].kind = "Lagrange"
    /\ calc[1].dim = 1
    /\ calc[1].spacedim = 3
    /\ calc[1].d_quad_key = <<"EDGE2", "QGAUSS", 1>>
    /\ Called(1)
    /\ last[1].elem = Edge2Diag

\* the call returned with the factor v at every quadrature point and the
\* returned values summing to total
DiagonalEdgeGives(v, total) ==
    /\ Returned(1)
    /\ \A q \in DOMAIN calc[1].d_JxW :
           /\ Same(ComputedJ(calc[1], last[1].elem, q), v)
           /\ Same(Deref(ret[1])[q], Mul(calc[1].d_quad_weights[q], v))
    /\ Same(Total(Deref(ret[1])), total)

\* C20 as stated: for LagrangeJacobianCalculator<1, 3> with key
\* (EDGE2, QGAUSS, 1) on the nodes (0,0,0), (1,2,2), the factor
\* sqrt(det(J^T J)) computed at each quadrature point is 3 and the returned
\* values sum to 3.
C20_FactorThree == OnDiagonalEdge => DiagonalEdgeGives(Num(3), Num(3))

\* C20 as amended: for LagrangeJacobianCalculator<1, 3> with key
\* (EDGE2, QGAUSS, 1) on the nodes (0,0,0), (1,2,2), the factor
\* sqrt(det(J^T J)) computed at the quadrature point is 3/2 (half the
\* length of the segment), and the returned values sum to 3.
C20_FactorThreeHalves == OnDiagonalEdge => DiagonalEdgeGives(Frac(3, 2), Num(3))

\* the call on the diagonal edge returned the one value 2 * 3/2 after an
\* earlier call on another element
C20_Witness ==
    /\ OnDiagonalEdge
    /\ Returned(1)
    /\ held[1] # None
    /\ Size(calc[1].d_JxW) = 1
    /\ calc[1].d_quad_weights[0] = Num(2)
    /\ Same(Deref(ret[1])[0], Num(3))

\* the matrix handed to determinant at quadrature point q of a call of
\* calculator c on elem: the spacedim x dim matrix when dim = spacedim, the
\* metric otherwise
DeterminantArgument(c, elem, q) ==
    IF c.dim = c.spacedim THEN Contravariant(c, NodeCoords(c, elem), q)
    ELSE Metric(c, Contravariant(c, NodeCoords(c, elem), q))

\* A is a square matrix of 1, 2 or 3 rows
SmallSquare(A) ==
    /\ Size(A) \in 1 .. 3
    /\ \A r \in DOMAIN A : Size(A[r]) = Size(A)

\* C21: for each of the six instantiations of LagrangeJacobianCalculator,
\* every determinant taken during get_JxW is of a square 1 x 1, 2 x 2 or
\* 3 x 3 matrix (the spacedim x dim matrix only when dim = spacedim, the
\* dim x dim metric otherwise), and no call ends in the determinant
\* overload that always fails.
C21_DeterminantsSquare ==
    \A i \in Inst :
        (calc[i].kind = "Lagrange" /\ Called(i)) =>
            /\ last[i].outcome # "determinant_error"
            /\ last[i].elem.type = calc[i].d_quad_key[1] =>
                   \A q \in DOMAIN calc[i].d_JxW :
                       /\ SmallSquare(DeterminantArgument(calc[i], last[i].elem, q))
                       /\ Size(DeterminantArgument(calc[i], last[i].elem, q)) = calc[i].dim
                       /\ LagrangeJ(calc[i], NodeCoords(calc[i], last[i].elem), q).ok

\* a LagrangeJacobianCalculator<1, 3> returned, its determinants taken of
\* the 1 x 1 metric of a 3 x 1 matrix
C21_Witness ==
    /\ calc[1].kind = "Lagrange"
    /\ calc[1].dim = 1
    /\ calc[1].spacedim = 3
    /\ Returned(1)
    /\ Size(Contravariant(calc[1], NodeCoords(calc[1], last[1].elem), 0)) = 3
    /\ Size(DeterminantArgument(calc[1], last[1].elem, 0)) = 1

\* d_JxW of calculator 1 holds w_q * J of the latest element before entry
\* k and the raw weights from entry k on, and J at entry k is not positive
PartlyScaledTo(k) ==
    /\ ~Gt0(ComputedJ(calc[1], last[1].elem, k))
    /\ \A q \in DOMAIN calc[1].d_JxW :
           IF q < k /\ calc[1].kind \notin {"Tri3", "Tet4"}
           THEN /\ Gt0(ComputedJ(calc[1], last[1].elem, q))
                /\ calc[1].d_JxW[q]
                       = Mul(calc[1].d_quad_weights[q],
                             ComputedJ(calc[1], last[1].elem, q))
           ELSE calc[1].d_JxW[q] = calc[1].d_quad_weights[q]

PartlyScaled == \E k \in DOMAIN calc[1].d_JxW : PartlyScaledTo(k)

\* C22: in every get_JxW the type check comes before the copy of the
\* weights: a call that fails the type check leaves d_JxW as the previous
\* call left it; a call that fails the check J > 0 has overwritten d_JxW,
\* the entries before the failing point holding w * J of the rejected
\* element and the others the raw weights.
C22_TypeCheckBeforeCopy ==
    /\ [][last'[1].outcome = "type_error"
              => calc'[1].d_JxW = calc[1].d_JxW]_vars
    /\ [](last[1].outcome = "J_error" => PartlyScaled)

\* a call failed the type check and left the buffer as a call that failed
\* at a later entry had left it: scaled entries before raw weights
C22_Witness ==
    /\ last[1].outcome = "type_error"
    /\ \E q \in DOMAIN calc[1].d_JxW :
           /\ q > 0
           /\ calc[1].d_JxW[q] = calc[1].d_quad_weights[q]
           /\ calc[1].d_JxW[0] # calc[1].d_quad_weights[0]
           /\ calc[1].d_JxW[0] # Zero


----------------------------------------------------------------------------
(***************************************************************************)
(* AdvDiffCUIConservativeConvectiveOperator                                *)
(* (src/adv_diff/AdvDiffCUIConservativeConvectiveOperator.cpp), in an      *)
(* assertion-checking build (NDEBUG not defined).                          *)
(*                                                                         *)
(* A patch hierarchy is a number h, with levels 0..MaxLevel of one patch   *)
(* each; hier[h][ln] is the set of patch data indices allocated on level   *)
(* ln.  A SAMRAI vector is the hierarchy it lives on, its level range and  *)
(* the index of its component 0.  A communication algorithm is the         *)
(* sequence of the items registered with it, a schedule what               *)
(* createSchedule was handed, a CartExtrapPhysBdryOp the indices it        *)
(* extrapolates and how.  A null Pointer is None.                          *)
(*                                                                         *)
(* The density has the depth of Q: the loops over d < d_Q_data_depth index *)
(* the density data with the same d.                                       *)
(***************************************************************************)

MaxLevel == 1

MaxDepth == 2

\* two patch hierarchies
Hierarchies == {1, 2}

Levels == 0..MaxLevel

\* the indices of the caller's own patch data
CallerIndices == {20, 21}

\* SAMRAIVectorReal: a vector lives on a non-empty range of levels
SAMRAIVectorReal ==
    {v \in [hierarchy : Hierarchies, coarsest : Levels, finest : Levels,
            idx : CallerIndices] : v.coarsest <= v.finest}

\* the constructor: the base class has set up the members of Q (the
\* advection velocity index, the three indices of Q, the depth, the outflow
\* extrapolation type) and left the operator uninitialised; the body
\* registers the three indices of the density
NewOperator(NDIM, depth, extrap_type) ==
    [NDIM |-> NDIM,
     alive |-> TRUE,
     d_is_initialized |-> FALSE,
     d_outflow_bdry_extrap_type |-> extrap_type,
     d_hierarchy |-> None,
     d_coarsest_ln |-> None,
     d_finest_ln |-> None,
     d_coarsen_alg |-> None,
     d_coarsen_scheds |-> <<>>,
     d_ghostfill_alg |-> None,
     d_ghostfill_strategy |-> None,
     d_ghostfill_scheds |-> <<>>,
     d_Q_data_depth |-> depth,
     d_rho_data_depth |-> depth,
     d_u_idx |-> 10,
     d_rho_idx |-> 11,
     d_Q_scratch_idx |-> 0,
     d_q_extrap_idx |-> 1,
     d_q_flux_idx |-> 2,
     d_rho_scratch_idx |-> 3,
     d_rho_extrap_idx |-> 4,
     d_rho_flux_idx |-> 5]

\* std::vector::resize(n): the first n entries stay, new entries are null
resize(v, n) == [ln \in 0..(n - 1) |-> IF ln \in DOMAIN v THEN v[ln] ELSE None]

\* a variant of deallocateOperatorState that leaves the flag set
deallocateOperatorStateKeepFlag(o) ==
    IF ~o.d_is_initialized THEN o
    ELSE [o EXCEPT !.d_ghostfill_alg = None,
                   !.d_ghostfill_strategy = None,
                   !.d_ghostfill_scheds = <<>>]

deallocateOperatorState(o) ==
    IF ~o.d_is_initialized THEN o
    ELSE [o EXCEPT !.d_ghostfill_alg = None,
                   !.d_ghostfill_strategy = None,
                   !.d_ghostfill_scheds = <<>>,
                   !.d_is_initialized = FALSE]

\* RefineAlgorithm::registerRefine(dst, src, scratch, op)
registerRefine(alg, dst, src, scratch) == Append(alg, <<dst, src, scratch>>)

\* new CartExtrapPhysBdryOp(patch_data_index, extrap_type)
CartExtrapPhysBdryOp(patch_data_index, extrap_type) ==
    [patch_data_indices |-> {patch_data_index}, extrap_type |-> extrap_type]

\* alg->createSchedule(...): the schedule keeps what it was created with
createSchedule(alg, hierarchy, ln, strategy) ==
    [items |-> alg, hierarchy |-> hierarchy, level |-> ln,
     strategy |-> strategy]

\* lines 705-717: the coarsen algorithm, registerCoarsen(dst, src, op) for
\* the two fluxes, and its schedules
SetupCoarsen(o) ==
    LET alg == <<<<o.d_rho_flux_idx, o.d_rho_flux_idx>>,
                 <<o.d_q_flux_idx, o.d_q_flux_idx>>>>
        old == resize(o.d_coarsen_scheds, o.d_finest_ln + 1)
    IN [o EXCEPT
           !.d_coarsen_alg = alg,
           !.d_coarsen_scheds =
               [ln \in DOMAIN old |->
                    IF ln \in (o.d_coarsest_ln + 1)..o.d_finest_ln
                    THEN createSchedule(alg, o.d_hierarchy, ln, None)
                    ELSE old[ln]]]

\* lines 719-736: the refine algorithm, the patch strategy and the schedules
SetupGhostfill(o, in) ==
    LET alg1 == registerRefine(<<>>, o.d_rho_scratch_idx, in.idx,
                               o.d_rho_scratch_idx)
        strategy1 == IF o.d_outflow_bdry_extrap_type # "NONE"
                     THEN CartExtrapPhysBdryOp(o.d_rho_scratch_idx,
                                               o.d_outflow_bdry_extrap_type)
                     ELSE o.d_ghostfill_strategy
        alg2 == registerRefine(alg1, o.d_Q_scratch_idx, in.idx,
                               o.d_Q_scratch_idx)
        strategy2 == IF o.d_outflow_bdry_extrap_type # "NONE"
                     THEN CartExtrapPhysBdryOp(o.d_Q_scratch_idx,
                                               o.d_outflow_bdry_extrap_type)
                     ELSE strategy1
        old == resize(o.d_ghostfill_scheds, o.d_finest_ln + 1)
    IN [o EXCEPT
           !.d_ghostfill_alg = alg2,
           !.d_ghostfill_strategy = strategy2,
           !.d_ghostfill_scheds =
               [ln \in DOMAIN old |->
                    IF ln \in o.d_coarsest_ln..o.d_finest_ln
                    THEN createSchedule(alg2, o.d_hierarchy, ln, strategy2)
                    ELSE old[ln]]]

initializeOperatorState(o, in, out) ==
    LET o1 == IF o.d_is_initialized THEN deallocateOperatorState(o) ELSE o
        o2 == [o1 EXCEPT !.d_hierarchy = in.hierarchy,
                         !.d_coarsest_ln = in.coarsest,
                         !.d_finest_ln = in.finest]
    IN IF \/ o2.d_hierarchy # out.hierarchy
          \/ o2.d_coarsest_ln # out.coarsest
          \/ o2.d_finest_ln # out.finest
       THEN [outcome |-> "assert_error", obj |-> o2]
       ELSE [outcome |-> "returned",
             obj |-> [SetupGhostfill(SetupCoarsen(o2), in)
                          EXCEPT !.d_is_initialized = TRUE]]

\* what a call does is kept as the sequence of its steps on patch data, in
\* program order: allocations, the schedules run, patch data looked up, the
\* kernels called.  A kernel call lists its pointers into patch data in the
\* order of the source (the patch bounds, the ghost cell widths and the
\* work arrays local to a patch are left out): <<idx, d>> is
\* CellData::getPointer(d), <<idx, axis, d>> is FaceData::getPointer(axis, d),
\* where d = 0 when the call leaves it out.

RECURSIVE Flatten(_)
Flatten(ss) == IF ss = <<>> THEN <<>> ELSE Head(ss) \o Flatten(Tail(ss))

\* for (i = lo; i <= hi; ++i) Body(i)
ForRange(lo, hi, Body(_)) ==
    Flatten([k \in 1..(hi - lo + 1) |-> Body(lo + k - 1)])

\* the pointers of one face datum for the axes 0..NDIM-1 at depth d
FacePointers(NDIM, idx, d) == [a \in 1..NDIM |-> <<idx, a - 1, d>>]

\* the six scratch indices in the order of lines 309-316 and 670-677
ScratchIndices(o) ==
    <<o.d_Q_scratch_idx, o.d_q_extrap_idx, o.d_q_flux_idx,
      o.d_rho_scratch_idx, o.d_rho_extrap_idx, o.d_rho_flux_idx>>

AllocateScratch(o, ln) ==
    [k \in 1..6 |->
        [call |-> "allocatePatchData", ln |-> ln, idx |-> ScratchIndices(o)[k]]]

\* a variant of the deallocation that leaves out the last index, the
\* density flux
DeallocateScratchButOne(o, ln) ==
    [k \in 1..5 |->
        [call |-> "deallocatePatchData", ln |-> ln,
         idx |-> ScratchIndices(o)[k]]]

DeallocateScratch(o, ln) ==
    [k \in 1..6 |->
        [call |-> "deallocatePatchData", ln |-> ln,
         idx |-> ScratchIndices(o)[k]]]

GetPatchData(ln, idx) == [call |-> "getPatchData", ln |-> ln, idx |-> idx]

Kernel(name, ln, d, args) == [call |-> name, ln |-> ln, d |-> d, args |-> args]

\* lines 404-449 (Q) and 452-497 (the density): from the cell data to the
\* face data along the advection velocity
Extrapolate(o, ln, d, scratch_idx, extrap_idx) ==
    Kernel("CUI_EXTRAPOLATE_FC", ln, d,
           <<<<scratch_idx, d>>>>
               \o FacePointers(o.NDIM, o.d_u_idx, 0)
               \o FacePointers(o.NDIM, extrap_idx, d))

\* lines 511-556: the density flux from the advection velocity
FluxRho(o, ln, d) ==
    Kernel("ADVECT_FLUX_FC", ln, d,
           FacePointers(o.NDIM, o.d_u_idx, 0)
               \o FacePointers(o.NDIM, o.d_rho_extrap_idx, d)
               \o FacePointers(o.NDIM, o.d_rho_flux_idx, d))

\* lines 558-603: the flux of Q from the density flux
FluxQ(o, ln, d) ==
    Kernel("ADVECT_FLUX_FC", ln, d,
           (IF o.NDIM = 2
            THEN FacePointers(2, o.d_rho_flux_idx, d)
            ELSE FacePointers(3, o.d_rho_flux_idx, 0))
               \o FacePointers(o.NDIM, o.d_q_extrap_idx, d)
               \o FacePointers(o.NDIM, o.d_q_flux_idx, d))

\* lines 332-604 for one level; the schedule is run with the items of the
\* local refine algorithm (lines 320-327)
ExtrapolateLevel(o, ln, Q_idx) ==
    LET items == registerRefine(
                     registerRefine(<<>>, o.d_Q_scratch_idx, Q_idx,
                                    o.d_Q_scratch_idx),
                     o.d_rho_scratch_idx, o.d_rho_idx, o.d_rho_scratch_idx)
        ExtrapolateBoth(d) ==
            <<Extrapolate(o, ln, d, o.d_Q_scratch_idx, o.d_q_extrap_idx),
              Extrapolate(o, ln, d, o.d_rho_scratch_idx, o.d_rho_extrap_idx)>>
        FluxBoth(d) == <<FluxRho(o, ln, d), FluxQ(o, ln, d)>>
    IN <<[call |-> "fillData", ln |-> ln, items |-> items,
          strategy |-> o.d_ghostfill_scheds[ln].strategy],
         GetPatchData(ln, o.d_Q_scratch_idx),
         GetPatchData(ln, o.d_u_idx),
         GetPatchData(ln, o.d_q_extrap_idx),
         GetPatchData(ln, o.d_rho_scratch_idx),
         GetPatchData(ln, o.d_rho_extrap_idx),
         [call |-> "setPhysicalBoundaryConditions", ln |-> ln,
          idx |-> o.d_Q_scratch_idx,
          inflow_boundary_only |-> o.d_outflow_bdry_extrap_type # "NONE"],
         [call |-> "setPhysicalBoundaryConditions", ln |-> ln,
          idx |-> o.d_rho_scratch_idx,
          inflow_boundary_only |-> o.d_outflow_bdry_extrap_type # "NONE"]>>
       \o ForRange(0, o.d_Q_data_depth - 1, ExtrapolateBoth)
       \o <<GetPatchData(ln, o.d_q_flux_idx),
            GetPatchData(ln, o.d_rho_flux_idx)>>
       \o ForRange(0, o.d_Q_data_depth - 1, FluxBoth)

\* lines 616-664 for one level
DifferenceLevel(o, ln, N_idx) ==
    LET Divergence(d) ==
            <<Kernel("F_TO_C_DIV_FC", ln, d,
                     <<<<N_idx, d>>>>
                         \o FacePointers(o.NDIM, o.d_q_flux_idx, d))>>
    IN <<GetPatchData(ln, N_idx), GetPatchData(ln, o.d_q_flux_idx)>>
       \o ForRange(0, o.d_Q_data_depth - 1, Divergence)

\* the steps of applyConvectiveOperator on an initialised operator
ApplySteps(o, Q_idx, N_idx) ==
    LET Allocate(ln) == AllocateScratch(o, ln)
        ExtrapolateOn(ln) == ExtrapolateLevel(o, ln, Q_idx)
        Difference(ln) == DifferenceLevel(o, ln, N_idx)
        DeallocateOn(ln) == DeallocateScratch(o, ln)
    IN ForRange(o.d_coarsest_ln, o.d_finest_ln, Allocate)
       \o ForRange(o.d_coarsest_ln, o.d_finest_ln, ExtrapolateOn)
       \o [k \in 1..(o.d_finest_ln - o.d_coarsest_ln) |->
              [call |-> "coarsenData", ln |-> o.d_finest_ln - k + 1]]
       \o ForRange(o.d_coarsest_ln, o.d_finest_ln, Difference)
       \o ForRange(o.d_coarsest_ln, o.d_finest_ln, DeallocateOn)

\* the patch data allocated on the levels of one hierarchy after the steps:
\* an index is allocated when the last step on it allocated it, or when
\* it was allocated before and no step touched it
RunSteps(A, steps) ==
    LET Touches(ln, idx) ==
            {k \in DOMAIN steps :
                /\ steps[k].call \in {"allocatePatchData", "deallocatePatchData"}
                /\ steps[k].ln = ln
                /\ steps[k].idx = idx}
        LastOf(K) == CHOOSE k \in K : \A j \in K : j <= k
        Touched(ln) ==
            {steps[k].idx : k \in {j \in DOMAIN steps : steps[j].ln = ln
                                       /\ "idx" \in DOMAIN steps[j]}}
    IN [ln \in DOMAIN A |->
           {idx \in A[ln] \cup Touched(ln) :
               IF Touches(ln, idx) = {}
               THEN idx \in A[ln]
               ELSE steps[LastOf(Touches(ln, idx))].call = "allocatePatchData"}]

applyConvectiveOperator(o, H, Q_idx, N_idx) ==
    IF ~o.d_is_initialized
    THEN [outcome |-> "error", hier |-> H, steps |-> <<>>]
    ELSE LET steps == ApplySteps(o, Q_idx, N_idx)
         IN [outcome |-> "returned",
             hier |-> [H EXCEPT ![o.d_hierarchy] = RunSteps(@, steps)],
             steps |-> steps]

calculators == <<calc, last, ret, held, seen, plan, thread>>

\* One operator, built for NDIM = 2 or 3, on hierarchies that hold the
\* caller's data, the advection velocity and the density on every level;
\* the caller initialises, deallocates and applies in any order, and in the
\* end destroys the operator.  log.latest is the latest call among
\* initializeOperatorState and deallocateOperatorState, how it ended and
\* the vector it was handed.
InitOperator ==
    \E NDIM \in {2, 3}, depth \in 1..MaxDepth,
       extrap_type \in {"NONE", "CONSTANT", "LINEAR"} :
        \E o \in {NewOperator(NDIM, depth, extrap_type)} :
            /\ op = o
            /\ hier = [h \in Hierarchies |->
                          [ln \in Levels |->
                              CallerIndices \cup {o.d_u_idx, o.d_rho_idx}]]
            /\ log = [call |-> "AdvDiffCUIConservativeConvectiveOperator",
                      outcome |-> "returned", steps |-> <<>>,
                      latest |-> [call |-> "none", outcome |-> "none",
                                  in |-> None]]
            /\ calc = None /\ last = None /\ ret = None /\ held = None
            /\ seen = None /\ plan = None /\ thread = None

Initialize ==
    /\ op.alive
    /\ \E in \in SAMRAIVectorReal, out \in SAMRAIVectorReal :
           /\ out.idx # in.idx
           /\ \E r \in {initializeOperatorState(op, in, out)} :
                  /\ op' = r.obj
                  /\ log' = [call |-> "initializeOperatorState",
                             outcome |-> r.outcome, steps |-> <<>>,
                             latest |-> [call |-> "initializeOperatorState",
                                         outcome |-> r.outcome, in |-> in]]
    /\ UNCHANGED <<hier, calculators>>

Deallocate ==
    /\ op.alive
    /\ op' = deallocateOperatorState(op)
    /\ log' = [call |-> "deallocateOperatorState",
               outcome |-> "returned", steps |-> <<>>,
               latest |-> [call |-> "deallocateOperatorState",
                           outcome |-> "returned", in |-> None]]
    /\ UNCHANGED <<hier, calculators>>

Apply ==
    /\ op.alive
    /\ \E Q_idx \in CallerIndices, N_idx \in CallerIndices :
           /\ Q_idx # N_idx
           /\ \E r \in {applyConvectiveOperator(op, hier, Q_idx, N_idx)} :
                  /\ hier' = r.hier
                  /\ log' = [call |-> "applyConvectiveOperator",
                             outcome |-> r.outcome, steps |-> r.steps,
                             latest |-> log.latest]
    /\ UNCHANGED <<op, calculators>>

\* the destructor calls deallocateOperatorState
Destroy ==
    /\ op.alive
    /\ op' = [deallocateOperatorState(op) EXCEPT !.alive = FALSE]
    /\ log' = [call |-> "~AdvDiffCUIConservativeConvectiveOperator",
               outcome |-> "returned", steps |-> <<>>,
               latest |-> [call |-> "deallocateOperatorState",
                           outcome |-> "returned", in |-> None]]
    /\ UNCHANGED <<hier, calculators>>

NextOperator == Initialize \/ Deallocate \/ Apply \/ Destroy

SpecOperator == InitOperator /\ [][NextOperator]_vars

----------------------------------------------------------------------------
(* The convective operator: properties                                      *)

\* the ghost-fill schedules are those of the levels d_coarsest_ln..d_finest_ln
\* of the hierarchy of vector in, and no others
SchedulesFor(in) ==
    /\ op.d_hierarchy = in.hierarchy
    /\ op.d_coarsest_ln = in.coarsest
    /\ op.d_finest_ln = in.finest
    /\ DOMAIN op.d_ghostfill_scheds = 0..op.d_finest_ln
    /\ \A ln \in DOMAIN op.d_ghostfill_scheds :
           IF ln \in op.d_coarsest_ln..op.d_finest_ln
           THEN /\ op.d_ghostfill_scheds[ln] # None
                /\ op.d_ghostfill_scheds[ln].hierarchy = in.hierarchy
                /\ op.d_ghostfill_scheds[ln].level = ln
           ELSE op.d_ghostfill_scheds[ln] = None

\* C23: after any sequence of initializeOperatorState and
\* deallocateOperatorState calls that returned, d_is_initialized is true
\* exactly when the latest of them was initializeOperatorState; while it is
\* true d_ghostfill_scheds holds a schedule for every level in
\* [d_coarsest_ln, d_finest_ln] of the hierarchy supplied last, and nothing
\* of an earlier initialisation; deallocateOperatorState on an uninitialised
\* operator changes nothing.
C23_InitializedAfterInitialize ==
    /\ [](log.latest.outcome # "assert_error"
              => /\ op.d_is_initialized
                     <=> log.latest.call = "initializeOperatorState"
                 /\ op.d_is_initialized => SchedulesFor(log.latest.in))
    /\ [][(log'.call = "deallocateOperatorState" /\ ~op.d_is_initialized)
              => (op' = op /\ hier' = hier)]_vars

\* the operator was initialised again, on the finer levels of another
\* hierarchy: a coarsen schedule of the earlier hierarchy is still there
C23_Witness ==
    /\ op.d_is_initialized
    /\ op.d_coarsest_ln > 0
    /\ \E ln \in DOMAIN op.d_coarsen_scheds :
           /\ op.d_coarsen_scheds[ln] # None
           /\ op.d_coarsen_scheds[ln].hierarchy # op.d_hierarchy


\* the six scratch patch data indices of the operator
SixScratch ==
    {op.d_Q_scratch_idx, op.d_q_extrap_idx, op.d_q_flux_idx,
     op.d_rho_scratch_idx, op.d_rho_extrap_idx, op.d_rho_flux_idx}

\* the steps of the latest call that are calls of one of the names
StepsCalling(names) == {k \in DOMAIN log.steps : log.steps[k].call \in names}

\* the steps of the latest call that neither allocate nor deallocate
Computing ==
    DOMAIN log.steps
        \ StepsCalling({"allocatePatchData", "deallocatePatchData"})

\* the steps calling name are on the six scratch indices on the levels of
\* the operator, and on every one of them
OnSixOnEveryLevel(name) ==
    /\ \A k \in StepsCalling({name}) :
           /\ log.steps[k].ln \in op.d_coarsest_ln..op.d_finest_ln
           /\ log.steps[k].idx \in SixScratch
    /\ \A ln \in op.d_coarsest_ln..op.d_finest_ln, idx \in SixScratch :
           \E k \in StepsCalling({name}) :
               log.steps[k].ln = ln /\ log.steps[k].idx = idx

\* C24: applyConvectiveOperator on an uninitialised operator raises an error
\* before allocating anything; on an initialised operator it allocates the
\* six scratch indices on every level in [d_coarsest_ln, d_finest_ln] before
\* any computation and deallocates the same six on the same levels after
\* the computation, so that a completed call leaves none of them allocated.
C24_ScratchAllocatedAroundComputation ==
    /\ [](log.call = "applyConvectiveOperator"
              => IF op.d_is_initialized
                 THEN /\ log.outcome = "returned"
                      /\ OnSixOnEveryLevel("allocatePatchData")
                      /\ OnSixOnEveryLevel("deallocatePatchData")
                      /\ \A c \in Computing :
                             /\ \A a \in StepsCalling({"allocatePatchData"}) :
                                    a < c
                             /\ \A d \in StepsCalling({"deallocatePatchData"}) :
                                    c < d
                      /\ \A ln \in op.d_coarsest_ln..op.d_finest_ln :
                             hier[op.d_hierarchy][ln] \cap SixScratch = {}
                 ELSE log.outcome = "error" /\ log.steps = <<>>)
    /\ [][(log'.call = "applyConvectiveOperator" /\ ~op.d_is_initialized)
              => hier' = hier]_vars

\* a call on an operator initialised on two levels completed, with the
\* kernels called between the allocation and the deallocation
C24_Witness ==
    /\ log.call = "applyConvectiveOperator"
    /\ log.outcome = "returned"
    /\ op.d_coarsest_ln < op.d_finest_ln
    /\ StepsCalling({"ADVECT_FLUX_FC"}) # {}
    /\ Computing # {}


\* C25: after initializeOperatorState with d_outflow_bdry_extrap_type
\* different from "NONE", the physical-boundary strategy handed to every
\* ghost-fill schedule extrapolates both scratch indices registered with
\* the ghost-fill algorithm, d_rho_scratch_idx and d_Q_scratch_idx.
C25_StrategyExtrapolatesBoth ==
    (op.d_is_initialized /\ op.d_outflow_bdry_extrap_type # "NONE")
        => \A ln \in op.d_coarsest_ln..op.d_finest_ln :
               /\ op.d_ghostfill_scheds[ln].strategy # None
               /\ {op.d_ghostfill_scheds[ln].items[k][1] :
                       k \in DOMAIN op.d_ghostfill_scheds[ln].items}
                      = {op.d_rho_scratch_idx, op.d_Q_scratch_idx}
               /\ {op.d_rho_scratch_idx, op.d_Q_scratch_idx}
                      \subseteq op.d_ghostfill_scheds[ln].strategy.patch_data_indices


\* the pointers a kernel step was handed at the places from..to
Pointers(step, from, to) == SubSeq(step.args, from, to)

\* step k of the latest call is the flux of Q component d on level ln: an
\* ADVECT_FLUX_FC call that writes q_flux at depth d on every axis
WritesQFlux(k, ln, d) ==
    /\ log.steps[k].call = "ADVECT_FLUX_FC"
    /\ log.steps[k].ln = ln
    /\ Pointers(log.steps[k], 2 * op.NDIM + 1, 3 * op.NDIM)
           = [a \in 1..op.NDIM |-> <<op.d_q_flux_idx, a - 1, d>>]

\* C26: in applyConvectiveOperator, for every depth d in
\* [0, d_Q_data_depth), the flux of Q component d is computed from the
\* density flux of the same component d, the rho_flux component written by
\* the preceding density flux call for that d, in the NDIM == 2 and the
\* NDIM == 3 builds alike.
C26_QFluxFromSameDensityComponent ==
    (log.call = "applyConvectiveOperator" /\ log.outcome = "returned")
        => \A ln \in op.d_coarsest_ln..op.d_finest_ln,
              d \in 0..(op.d_Q_data_depth - 1) :
               /\ \E k \in DOMAIN log.steps : WritesQFlux(k, ln, d)
               /\ \A k \in DOMAIN log.steps :
                      WritesQFlux(k, ln, d)
                          => /\ Pointers(log.steps[k], 1, op.NDIM)
                                    = [a \in 1..op.NDIM |->
                                          <<op.d_rho_flux_idx, a - 1, d>>]
                             /\ k > 1
                             /\ log.steps[k - 1].call = "ADVECT_FLUX_FC"
                             /\ Pointers(log.steps[k - 1],
                                         2 * op.NDIM + 1, 3 * op.NDIM)
                                    = [a \in 1..op.NDIM |->
                                          <<op.d_rho_flux_idx, a - 1, d>>]


\* calculator 1 is a constructed Quad9JacobianCalculator
IsQuad9 == "kind" \in DOMAIN calc[1] /\ calc[1].kind = "Quad9"

\* the indices q_point_x, q_point_y that get_JxW forms for point q
QPoint(q) ==
    <<q % calc[1].d_n_oned_q_points, q \div calc[1].d_n_oned_q_points>>

\* table is a 3 x Q1 array
ThreeByQ1(table) ==
    /\ DOMAIN table = 0 .. 2
    /\ \A i \in 0 .. 2 : DOMAIN table[i] = 0 .. calc[1].d_n_oned_q_points - 1

\* C27: in a constructed Quad9JacobianCalculator Q = Q1 * Q1, so for every
\* q in [0, Q) the indices q mod Q1 and q div Q1 are both in [0, Q1), the
\* map from q to the pair is a bijection onto [0, Q1) x [0, Q1), and every
\* access of d_phi and d_dphi in get_JxW, at a row in 0..2 and the column
\* q mod Q1 or q div Q1, is inside the 3 x Q1 tables.
C27_Quad9IndicesInRange ==
    IsQuad9 =>
        /\ Size(calc[1].d_quad_points)
               = calc[1].d_n_oned_q_points * calc[1].d_n_oned_q_points
        /\ DOMAIN calc[1].d_JxW = DOMAIN calc[1].d_quad_points
        /\ \A q \in DOMAIN calc[1].d_JxW :
               /\ QPoint(q)[1] \in 0 .. calc[1].d_n_oned_q_points - 1
               /\ QPoint(q)[2] \in 0 .. calc[1].d_n_oned_q_points - 1
        /\ \A q1 \in DOMAIN calc[1].d_JxW, q2 \in DOMAIN calc[1].d_JxW :
               QPoint(q1) = QPoint(q2) => q1 = q2
        /\ {QPoint(q) : q \in DOMAIN calc[1].d_JxW}
               = (0 .. calc[1].d_n_oned_q_points - 1)
                     \X (0 .. calc[1].d_n_oned_q_points - 1)
        /\ ThreeByQ1(calc[1].d_phi)
        /\ ThreeByQ1(calc[1].d_dphi)

\* get_JxW returned on a calculator of nine points, three in each direction
C27_Witness ==
    /\ IsQuad9
    /\ calc[1].d_n_oned_q_points = 3
    /\ Size(calc[1].d_JxW) = 9
    /\ last[1].outcome = "returned"

====
